---- MODULE Spec2Model ----
(***************************************************************************)
(* A model of the RoArm M2 multi-robot controller: the per-robot control   *)
(* frame (pose, missions, mission runs, jog loop, telemetry listener) of   *)
(* robot_control_frame.py, the scheduler of scheduler.py and the global    *)
(* controls of multi_robot_app.py.                                         *)
(*                                                                         *)
(* Units: x, y, z are millimetres, t is in 1/100 rad, spd is in 1/10.      *)
(***************************************************************************)
EXTENDS Integers, Sequences, FiniteSets, TLC

VARIABLES
    \* ---- RobotControlFrame, one per robot ----
    current_position,               \* [Robots -> pose]
    movement_lock,                  \* [Robots -> thread id holding the lock, Free]
    pose_writer,                    \* [Robots -> thread id of the last pose mutation]
    missions,                       \* [Robots -> [name -> mission]]
    selected_mission,               \* [Robots -> name or NoMission]
    runs,                           \* [Robots -> Seq(run_mission thread)]
    mission_execution_stop_event,   \* [Robots -> BOOLEAN]
    pending_play,                   \* play_both_missions: threads not yet run
    moving_thread,                  \* [Robots -> continuous_move_loop thread]
    moving_stop_event,              \* [Robots -> BOOLEAN]
    gui_pc,                         \* what the GUI thread is doing
    jog_ticks,                      \* [Robots -> jog ticks performed]
    listener,                       \* [Robots -> serial_listener thread]
    frames_left,                    \* [Robots -> inbound frames still to come]
    inits_left,                     \* [Robots -> Init presses still to come]
    \* ---- mission files and drag-and-drop ----
    mission_files,                  \* [file name -> Seq(line)]
    dragging_start_index,           \* [Robots -> index or NoIndex]
    last_move,                      \* [Robots -> <<from, to>> of the last move logged]
    last_error,                     \* [Robots -> what the last mission handler showed]
    \* ---- SchedulerFrame ----
    clock,                          \* the wall clock, in half ticks
    task_objs,                      \* Seq(task dict): every task dict created
    scheduled_tasks,                \* Seq(index into task_objs)
    tasks_tree,                     \* Seq(row)
    monitors,                       \* Seq(monitor_task thread), one per task dict
    schedule_file,                  \* Seq(task dict) saved, <<>> when none
    \* ---- get_step_type ----
    cl_step,                        \* the step handed to get_step_type
    cl_result,                      \* its result, or NoResult
    \* ---- execute_step's settle delay ----
    tc_pose,                        \* the pose the delay is computed from
    tc_step,                        \* the movement step executed
    tc_result,                      \* the delay computed, NoTc before the first
    \* ---- the serial link ----
    ser,                            \* [Robots -> "none", "open" or "closed"]
    serial_listener_stop_event,     \* [Robots -> BOOLEAN]
    closing,                        \* [Robots -> where close_connection is, calls made]
    \* ---- the notification queue ----
    gui_queue,                      \* [Robots -> Seq(notification)], oldest first
    gui_executed,                   \* [Robots -> Seq(id)], the callbacks called, in order
    consumer,                       \* [Robots -> where process_gui_queue is]
    emitted,                        \* [Robots -> notifications put so far]
    \* ---- send_command_in_thread ----
    followed,                       \* the robots whose send() threads are followed
    send_threads,                   \* [Robots -> Seq(send() thread)], in start order
    wire,                           \* [Robots -> Seq(line)], what the port was given
    \* ---- play_step ----
    step_threads                    \* [Robots -> Seq(run_step thread)]

poseVars == <<current_position, movement_lock, pose_writer>>
missionVars == <<missions, selected_mission>>
runVars == <<runs, mission_execution_stop_event, pending_play>>
jogVars == <<moving_thread, moving_stop_event, gui_pc, jog_ticks>>
listenerVars == <<listener, frames_left>>
editVars == <<mission_files, dragging_start_index, last_move, last_error>>
schedVars == <<clock, task_objs, scheduled_tasks, tasks_tree, monitors,
               schedule_file>>
classifyVars == <<cl_step, cl_result>>
timingVars == <<tc_pose, tc_step, tc_result>>
linkVars == <<ser, serial_listener_stop_event, closing>>
notifyVars == <<gui_queue, gui_executed, consumer, emitted>>
sendVars == <<followed, send_threads, wire>>
stepVars == <<step_threads>>

vars == <<poseVars, missionVars, runVars, jogVars, listenerVars, inits_left,
          editVars, schedVars, classifyVars, timingVars, linkVars, notifyVars, sendVars, stepVars>>

-----------------------------------------------------------------------------
(* Bounds of the model *)

MaxRuns == 2            \* run_mission threads started per robot
MaxPoseRuns == 1        \* of them, where every pose worker is at work
MaxTimes == 2           \* repetitions asked for
MaxJogTicks == 2        \* jog ticks per robot
MaxFrames == 1          \* inbound frames per robot
MaxInits == 1           \* Init presses per robot
MaxTaskObjs == 2        \* task dicts created by add_to_schedule and load_schedule
TicksPerDay == 2        \* times of day a task can be scheduled at
MaxDays == 2            \* days the wall clock runs over
MaxSteps == 4           \* steps of the mission whose steps are dragged
MaxMissionSteps == 2    \* steps added to a mission by add_step and add_delay

-----------------------------------------------------------------------------
(* Values *)

Robots == {"Robot 1", "Robot 2"}
NoMission == "<none>"
Axes == {"x", "y", "z", "t"}

\* thread ids, as the holder of movement_lock
Free == 0
JogTid == 100
ListenerTid == 101
GuiTid == 102
RunTid(k) == k

\* dict.get(key, default)
Get(d, key, default) == IF key \in DOMAIN d THEN d[key] ELSE default

NoCode == -1
default_spd == 25
default_acc == 10
xyz_increment == 3
t_increment == 2

startup_position == [x |-> 235, y |-> 0, z |-> 234, t |-> 314]

MoveCmd(pos) ==
    [T |-> 104, x |-> pos.x, y |-> pos.y, z |-> pos.z, t |-> pos.t,
     spd |-> default_spd, acc |-> default_acc]

\* steps the engine's missions are made of
MoveA == [T |-> 104, x |-> 100, y |-> 50, z |-> 150, t |-> 0, spd |-> 25, acc |-> 10]
MoveB == [T |-> 104, x |-> 300, y |-> -50, z |-> 50, t |-> 157, spd |-> 50, acc |-> 10]
Delay500 == [T |-> 111, cmd |-> 500]
SuctionOn == [T |-> 113, pwm_a |-> 0, pwm_b |-> 255]

NoStep == [T |-> NoCode]

Mission(name, intro, steps) == [name |-> name, intro |-> intro, steps |-> steps]

-----------------------------------------------------------------------------
(* execute_step, a movement step: the settle delay tc.  Delays are exact     *)
(* fractions of a millisecond, [num, den] with den > 0; the floats of the    *)
(* code round them, which keeps their order.                                 *)

speed_scale == 1
distance_scale == 100
base_delay == 500
max_delay == 2000

Abs(n) == IF n < 0 THEN 0 - n ELSE n
Max3(a, b, c) == IF a >= b /\ a >= c THEN a ELSE IF b >= c THEN b ELSE c

\* mx = max(dx, dy, dz)
MaxAxisDelta(pos, step) ==
    Max3(Abs(pos.x - step["x"]), Abs(pos.y - step["y"]), Abs(pos.z - step["z"]))

RECURSIVE Gcd(_, _)
Gcd(a, b) == IF b = 0 THEN a ELSE Gcd(b, a % b)

\* the fraction n / d in lowest terms
Ratio(n, d) ==
    LET g == Gcd(Abs(n), Abs(d))
    IN  IF d > 0 THEN [num |-> n \div g, den |-> d \div g]
                 ELSE [num |-> (0 - n) \div g, den |-> (0 - d) \div g]
RatLeq(a, b) == a.num * b.den <= b.num * a.den
RatEq(a, b) == a.num * b.den = b.num * a.den
\* min(a, b) of Python: b only when b < a
RatMin(a, b) == IF RatLeq(a, b) THEN a ELSE b

\* tc = (mx / distance_scale) * (speed_scale / spd) + base_delay, capped by
\* max_delay; spd is in 1/10 and tc in ms, hence the factor 10 * 1000
SettleDelay(pos, step) ==
    LET mx == MaxAxisDelta(pos, step)
        spd == Get(step, "spd", default_spd)
    IN  IF spd = 0
        THEN [kind |-> "ZeroDivisionError"]
        ELSE [kind |-> "tc",
              tc |-> RatMin(Ratio(mx * speed_scale * 10000
                                      + base_delay * distance_scale * spd,
                                  distance_scale * spd),
                            Ratio(max_delay, 1))]

-----------------------------------------------------------------------------
(* play_mission_specific and the run_mission thread *)

\* progress is the last progress notification queued for the run, the 0 of
\* play_mission_specific at first; completed counts its "completed" notifications;
\* tx_failed tells that a frame of the run was not written to the port
NewRun(times) ==
    [pc |-> "start", times |-> times, rep |-> 0, idx |-> 0, mission |-> NoMission,
     total |-> 0, executed |-> 0, step |-> NoStep, outcome |-> "running",
     progress |-> Ratio(0, 1), completed |-> 0, tx_failed |-> FALSE]

RunActive(r, k) == runs[r][k].pc # "done"

\* The state change of one call of play_mission_specific(times) on robot r.
PlayEffect(r, times) ==
    IF selected_mission[r] = NoMission
    THEN UNCHANGED <<runs, mission_execution_stop_event>>
    ELSE /\ mission_execution_stop_event' =
                [mission_execution_stop_event EXCEPT ![r] = FALSE]
         /\ runs' = [runs EXCEPT ![r] = Append(@, NewRun(times))]

PlayMissionSpecific(r, times) ==
    /\ Len(runs[r]) < MaxRuns
    /\ PlayEffect(r, times)
    /\ UNCHANGED <<poseVars, missionVars, pending_play, jogVars, listenerVars,
                   inits_left, editVars, schedVars, classifyVars,
                   timingVars, linkVars, notifyVars, sendVars, stepVars>>

\* play_both_missions: both robots need a selected mission; the two calls of
\* play_mission_specific are made by two threads of their own.
PlayBothMissions(times) ==
    /\ pending_play = {}
    /\ IF \E r \in Robots : selected_mission[r] = NoMission
       THEN UNCHANGED pending_play
       ELSE pending_play' = {<<r, times>> : r \in Robots}
    /\ UNCHANGED <<poseVars, missionVars, runs, mission_execution_stop_event,
                   jogVars, listenerVars, inits_left, editVars, schedVars,
                   classifyVars, timingVars, linkVars, notifyVars, sendVars, stepVars>>

PlayRobotThread(r) ==
    \E call \in pending_play :
        /\ call[1] = r
        /\ Len(runs[r]) < MaxRuns
        /\ PlayEffect(r, call[2])
        /\ pending_play' = pending_play \ {call}
        /\ UNCHANGED <<poseVars, missionVars, jogVars, listenerVars, inits_left,
                       editVars, schedVars, classifyVars, timingVars, linkVars, notifyVars, sendVars, stepVars>>

SetRun(r, k, run) == runs' = [runs EXCEPT ![r][k] = run]

\* total_steps = len(steps) * times; executed_steps = 0; first repetition
RunBegin(r, k) ==
    /\ runs[r][k].pc = "start"
    /\ LET sel == selected_mission[r]
       IN  SetRun(r, k, [runs[r][k] EXCEPT
                            !.pc = "iter",
                            !.total = Len(missions[r][sel].steps) * runs[r][k].times,
                            !.rep = 1, !.idx = 0, !.mission = sel])
    /\ UNCHANGED <<poseVars, missionVars, mission_execution_stop_event,
                   pending_play, jogVars, listenerVars, inits_left, editVars,
                   schedVars, classifyVars, timingVars, linkVars, notifyVars, sendVars, stepVars>>

HasAll(step, keys) == keys \subseteq DOMAIN step

\* execute_step up to its first wait: where the run is after dispatching on step["T"]
\* a movement raises on a missing coordinate, on spd = 0 and, in time.sleep, on a
\* negative tc; a delay raises in time.sleep on a negative cmd
Dispatch(pos, step) ==
    IF ~ HasAll(step, {"T"}) THEN "raise"
    ELSE IF step["T"] = 104
         THEN IF ~ HasAll(step, {"x", "y", "z"}) THEN "raise"
              ELSE LET d == SettleDelay(pos, step)
                   IN  IF d.kind = "tc" /\ d.tc.num >= 0 THEN "sleep" ELSE "raise"
    ELSE IF step["T"] = 111
         THEN IF Get(step, "cmd", 1000) >= 0 THEN "delay" ELSE "raise"
    ELSE "post"

\* execute_step that hands every step to the sender
SendsEveryStep(pos, step) == HasAll(step, {"T"})

\* execute_step that hands no movement to the sender
SendsCommandsOnly(pos, step) ==
    /\ HasAll(step, {"T"})
    /\ step["T"] \in {113, 114, 210, 112}

\* execute_step hands the step to send_command_in_thread: a movement whose tc
\* was computed, and the codes 113, 114, 210, 112
Sends(pos, step) ==
    /\ HasAll(step, {"T"})
    /\ \/ /\ step["T"] = 104
          /\ HasAll(step, {"x", "y", "z"})
          /\ SettleDelay(pos, step).kind = "tc"
       \/ step["T"] \in {113, 114, 210, 112}

\* send(): the frame is written when the port is open and the write does not
\* raise; otherwise send() reports the error itself and returns
Written(r) == ser[r] = "open"

\* a send() thread; by is bookkeeping: the id of the thread that called
\* send_command_in_thread
SendThreadOf(by, command, pc) == [command |-> command, by |-> by, pc |-> pc]

\* send_command_in_thread(command), called by thread by: a thread of its own is
\* started for send()
SendCommandInThread(r, by, command) ==
    /\ send_threads' =
           IF r \in followed
           THEN [send_threads EXCEPT
                    ![r] = Append(@, SendThreadOf(by, command, "started"))]
           ELSE send_threads
    /\ UNCHANGED <<followed, wire>>

\* One turn of "for stp in steps": the next step, the stop check, execute_step's
\* dispatch; or the end of the repetition.
RunNext(r, k) ==
    /\ runs[r][k].pc = "iter"
    /\ LET run == runs[r][k]
           lst == missions[r][run.mission].steps
       IN  IF run.idx < Len(lst)
           THEN IF mission_execution_stop_event[r]
                THEN SetRun(r, k, [run EXCEPT !.pc = "done", !.outcome = "stopped",
                                              !.idx = @ + 1])
                ELSE LET stp == lst[run.idx + 1]
                         to == Dispatch(current_position[r], stp)
                         lost == Sends(current_position[r], stp) /\ ~ Written(r)
                     IN  IF to = "raise"
                         THEN SetRun(r, k, [run EXCEPT !.pc = "done",
                                                       !.outcome = "failed",
                                                       !.idx = @ + 1,
                                                       !.tx_failed = @ \/ lost])
                         ELSE SetRun(r, k, [run EXCEPT !.pc = to, !.step = stp,
                                                       !.idx = @ + 1,
                                                       !.tx_failed = @ \/ lost])
           ELSE IF run.rep < run.times
                THEN SetRun(r, k, [run EXCEPT !.rep = @ + 1, !.idx = 0,
                                              !.mission = selected_mission[r]])
                ELSE SetRun(r, k, [run EXCEPT !.pc = "done",
                                              !.outcome = "completed",
                                              !.progress = Ratio(100, 1),
                                              !.completed = @ + 1])
    /\ LET run == runs[r][k]
           lst == missions[r][run.mission].steps
       IN  IF /\ run.idx < Len(lst)
              /\ ~ mission_execution_stop_event[r]
              /\ Sends(current_position[r], lst[run.idx + 1])
           THEN SendCommandInThread(r, RunTid(k), lst[run.idx + 1])
           ELSE UNCHANGED sendVars
    /\ UNCHANGED <<poseVars, missionVars, mission_execution_stop_event,
                   pending_play, jogVars, listenerVars, inits_left, editVars,
                   schedVars, classifyVars, timingVars, linkVars, notifyVars,
                   stepVars>>

\* time.sleep(tc) is over: with self.movement_lock
RunAcquire(r, k) ==
    /\ runs[r][k].pc = "sleep"
    /\ movement_lock[r] = Free
    /\ movement_lock' = [movement_lock EXCEPT ![r] = RunTid(k)]
    /\ SetRun(r, k, [runs[r][k] EXCEPT !.pc = "locked"])
    /\ UNCHANGED <<current_position, pose_writer, missionVars,
                   mission_execution_stop_event, pending_play, jogVars,
                   listenerVars, inits_left, editVars, schedVars, classifyVars,
                   timingVars, linkVars, notifyVars, sendVars, stepVars>>

\* the commit with two axes forgotten
CommitPoseTorn(pos, step) ==
    [pos EXCEPT !.x = step["x"], !.y = step["y"]]

\* self.current_position.update({x, y, z, t of the step})
CommitPose(pos, step) ==
    [pos EXCEPT !.x = step["x"], !.y = step["y"], !.z = step["z"], !.t = step["t"]]

RunCommit(r, k) ==
    /\ runs[r][k].pc = "locked"
    /\ IF HasAll(runs[r][k].step, {"x", "y", "z", "t"})
       THEN /\ current_position' =
                   [current_position EXCEPT ![r] = CommitPose(@, runs[r][k].step)]
            /\ pose_writer' = [pose_writer EXCEPT ![r] = RunTid(k)]
            /\ SetRun(r, k, [runs[r][k] EXCEPT !.pc = "unlock"])
            /\ UNCHANGED movement_lock
       ELSE \* KeyError inside the with block: the lock is released, the run fails
            /\ movement_lock' = [movement_lock EXCEPT ![r] = Free]
            /\ SetRun(r, k, [runs[r][k] EXCEPT !.pc = "done", !.outcome = "failed"])
            /\ UNCHANGED <<current_position, pose_writer>>
    /\ UNCHANGED <<missionVars, mission_execution_stop_event, pending_play,
                   jogVars, listenerVars, inits_left, editVars, schedVars,
                   classifyVars, timingVars, linkVars, notifyVars, sendVars, stepVars>>

\* a step after which the run does not go on
StepNotCounted(run) == run

\* executed_steps += 1; prog = (executed_steps / total_steps) * 100, which raises
\* when total_steps is 0; the progress notification
StepCounted(run) ==
    IF run.total = 0
    THEN [run EXCEPT !.pc = "done", !.outcome = "failed", !.executed = @ + 1]
    ELSE [run EXCEPT !.pc = "iter", !.executed = @ + 1,
                     !.progress = Ratio((run.executed + 1) * 100, run.total)]

\* leaving the with block; the step is counted
RunRelease(r, k) ==
    /\ runs[r][k].pc = "unlock"
    /\ movement_lock' = [movement_lock EXCEPT ![r] = Free]
    /\ SetRun(r, k, StepCounted(runs[r][k]))
    /\ UNCHANGED <<current_position, pose_writer, missionVars,
                   mission_execution_stop_event, pending_play, jogVars,
                   listenerVars, inits_left, editVars, schedVars, classifyVars,
                   timingVars, linkVars, notifyVars, sendVars, stepVars>>

\* a step without a pose commit is over (the delay's sleep, a frame handed to the
\* sender, an unknown step type): executed_steps += 1
RunStepDone(r, k) ==
    /\ runs[r][k].pc \in {"delay", "post"}
    /\ SetRun(r, k, StepCounted(runs[r][k]))
    /\ UNCHANGED <<poseVars, missionVars, mission_execution_stop_event,
                   pending_play, jogVars, listenerVars, inits_left, editVars,
                   schedVars, classifyVars, timingVars, linkVars, notifyVars, sendVars, stepVars>>

RunThread(r) ==
    \E k \in 1..Len(runs[r]) :
        \/ RunBegin(r, k)
        \/ RunNext(r, k)
        \/ RunAcquire(r, k)
        \/ RunCommit(r, k)
        \/ RunRelease(r, k)
        \/ RunStepDone(r, k)

-----------------------------------------------------------------------------
(* The GUI thread.  stop_continuous_move joins the jog thread, so the GUI     *)
(* thread can be blocked inside a handler.                                    *)

GuiIdleRec == [pc |-> "idle", robot |-> "", next |-> "", axis |-> "", delta |-> 0]
GuiIdle == gui_pc.pc = "idle"

-----------------------------------------------------------------------------
(* The jog controller: start_continuous_move, stop_continuous_move,           *)
(* continuous_move_loop                                                       *)

NoThread == [pc |-> "none", axis |-> "", delta |-> 0]
JogThread(axis, delta) == [pc |-> "loop", axis |-> axis, delta |-> delta]
JogAlive(r) == moving_thread[r].pc \notin {"none", "exited"}

JogMoves == {<<"x", xyz_increment>>, <<"t", 0 - t_increment>>}

StartContinuousMove(r, axis, delta) ==
    /\ GuiIdle
    /\ IF JogAlive(r)
       THEN \* stop_continuous_move: set the event, join
            /\ moving_stop_event' = [moving_stop_event EXCEPT ![r] = TRUE]
            /\ gui_pc' = [pc |-> "join", robot |-> r, next |-> "start",
                          axis |-> axis, delta |-> delta]
            /\ UNCHANGED moving_thread
       ELSE /\ moving_stop_event' = [moving_stop_event EXCEPT ![r] = FALSE]
            /\ moving_thread' = [moving_thread EXCEPT ![r] = JogThread(axis, delta)]
            /\ UNCHANGED gui_pc
    /\ UNCHANGED <<poseVars, missionVars, runVars, jog_ticks, listenerVars,
                   inits_left, editVars, schedVars, classifyVars,
                   timingVars, linkVars, notifyVars, sendVars, stepVars>>

StopContinuousMove(r) ==
    /\ GuiIdle
    /\ IF JogAlive(r)
       THEN /\ moving_stop_event' = [moving_stop_event EXCEPT ![r] = TRUE]
            /\ gui_pc' = [pc |-> "join", robot |-> r, next |-> "none",
                          axis |-> "", delta |-> 0]
            /\ UNCHANGED moving_thread
       ELSE /\ moving_thread' = [moving_thread EXCEPT ![r] = NoThread]
            /\ UNCHANGED <<moving_stop_event, gui_pc>>
    /\ UNCHANGED <<poseVars, missionVars, runVars, jog_ticks, listenerVars,
                   inits_left, editVars, schedVars, classifyVars,
                   timingVars, linkVars, notifyVars, sendVars, stepVars>>

\* a join that returns while the jog thread is still running
GuiJoinedEarly(r) ==
    /\ gui_pc.pc = "join"
    /\ gui_pc.robot = r
    /\ IF gui_pc.next = "start"
       THEN /\ moving_stop_event' = [moving_stop_event EXCEPT ![r] = FALSE]
            /\ moving_thread' = [moving_thread EXCEPT
                                    ![r] = JogThread(gui_pc.axis, gui_pc.delta)]
       ELSE /\ moving_thread' = [moving_thread EXCEPT ![r] = NoThread]
            /\ UNCHANGED moving_stop_event
    /\ gui_pc' = GuiIdleRec
    /\ UNCHANGED <<poseVars, missionVars, runVars, jog_ticks, listenerVars,
                   inits_left, editVars, schedVars, classifyVars,
                   timingVars, linkVars, notifyVars, sendVars, stepVars>>

\* self.moving_thread.join() returns; self.moving_thread = None; and, in
\* start_continuous_move, the event is cleared and the new thread started
GuiJoined(r) ==
    /\ gui_pc.pc = "join"
    /\ gui_pc.robot = r
    /\ moving_thread[r].pc = "exited"
    /\ IF gui_pc.next = "start"
       THEN /\ moving_stop_event' = [moving_stop_event EXCEPT ![r] = FALSE]
            /\ moving_thread' = [moving_thread EXCEPT
                                    ![r] = JogThread(gui_pc.axis, gui_pc.delta)]
       ELSE /\ moving_thread' = [moving_thread EXCEPT ![r] = NoThread]
            /\ UNCHANGED moving_stop_event
    /\ gui_pc' = GuiIdleRec
    /\ UNCHANGED <<poseVars, missionVars, runVars, jog_ticks, listenerVars,
                   inits_left, editVars, schedVars, classifyVars,
                   timingVars, linkVars, notifyVars, sendVars, stepVars>>

\* while not self.moving_stop_event.is_set()
JogLoop(r) ==
    /\ moving_thread[r].pc = "loop"
    /\ IF moving_stop_event[r]
       THEN moving_thread' = [moving_thread EXCEPT ![r].pc = "exited"]
       ELSE /\ jog_ticks[r] < MaxJogTicks
            /\ moving_thread' = [moving_thread EXCEPT ![r].pc = "acquire"]
    /\ UNCHANGED <<poseVars, missionVars, runVars, moving_stop_event, gui_pc,
                   jog_ticks, listenerVars, inits_left, editVars, schedVars,
                   classifyVars, timingVars, linkVars, notifyVars, sendVars, stepVars>>

JogAcquire(r) ==
    /\ moving_thread[r].pc = "acquire"
    /\ movement_lock[r] = Free
    /\ movement_lock' = [movement_lock EXCEPT ![r] = JogTid]
    /\ moving_thread' = [moving_thread EXCEPT ![r].pc = "locked"]
    /\ UNCHANGED <<current_position, pose_writer, missionVars, runVars,
                   moving_stop_event, gui_pc, jog_ticks, listenerVars, inits_left,
                   editVars, schedVars, classifyVars, timingVars, linkVars, notifyVars, sendVars, stepVars>>

\* self.current_position[axis] += delta
JogIncrement(pos, axis, delta) == [pos EXCEPT ![axis] = @ + delta]

JogTick(r) ==
    /\ moving_thread[r].pc = "locked"
    /\ current_position' =
           [current_position EXCEPT
               ![r] = JogIncrement(@, moving_thread[r].axis, moving_thread[r].delta)]
    /\ pose_writer' = [pose_writer EXCEPT ![r] = JogTid]
    /\ jog_ticks' = [jog_ticks EXCEPT ![r] = @ + 1]
    /\ moving_thread' = [moving_thread EXCEPT ![r].pc = "unlock"]
    /\ SendCommandInThread(r, JogTid, MoveCmd(current_position'[r]))
    /\ UNCHANGED <<movement_lock, missionVars, runVars, moving_stop_event, gui_pc,
                   listenerVars, inits_left, editVars, schedVars, classifyVars,
                   timingVars, linkVars, notifyVars, stepVars>>

\* the jog loop going to sleep inside its with block
JogReleaseLate(r) ==
    /\ moving_thread[r].pc = "unlock"
    /\ moving_thread' = [moving_thread EXCEPT ![r].pc = "loop"]
    /\ UNCHANGED <<poseVars, missionVars, runVars, moving_stop_event, gui_pc,
                   jog_ticks, listenerVars, inits_left, editVars, schedVars,
                   classifyVars, timingVars, linkVars, notifyVars, sendVars,
                   stepVars>>

\* leaving the with block; time.sleep(self.update_interval)
JogRelease(r) ==
    /\ moving_thread[r].pc = "unlock"
    /\ movement_lock' = [movement_lock EXCEPT ![r] = Free]
    /\ moving_thread' = [moving_thread EXCEPT ![r].pc = "loop"]
    /\ UNCHANGED <<current_position, pose_writer, missionVars, runVars,
                   moving_stop_event, gui_pc, jog_ticks, listenerVars, inits_left,
                   editVars, schedVars, classifyVars, timingVars, linkVars, notifyVars, sendVars, stepVars>>

JogController(r) ==
    \/ \E m \in JogMoves : StartContinuousMove(r, m[1], m[2])
    \/ StopContinuousMove(r)
    \/ GuiJoined(r)
    \/ JogLoop(r)
    \/ JogAcquire(r)
    \/ JogTick(r)
    \/ JogRelease(r)

-----------------------------------------------------------------------------
(* serial_listener and handle_serial_data *)

NoData == [T |-> NoCode]
ListenerIdle == [pc |-> "read", data |-> NoData]

PoseFrame == [T |-> 1051, x |-> 10, y |-> 20, z |-> 30, t |-> 40]
PartialPoseFrame == [T |-> 1051, x |-> 11]
AckFrame == [T |-> 105]
InboundFrames == {PoseFrame, PartialPoseFrame, AckFrame}

\* a line is read and parsed to a dict; handle_serial_data dispatches on
\* data.get("T")
ListenerReceive(r, data) ==
    /\ listener[r].pc = "read"
    /\ ser[r] = "open"
    /\ frames_left[r] > 0
    /\ frames_left' = [frames_left EXCEPT ![r] = @ - 1]
    /\ IF Get(data, "T", NoCode) = 1051
       THEN listener' = [listener EXCEPT ![r] = [pc |-> "acquire", data |-> data]]
       ELSE UNCHANGED listener
    /\ UNCHANGED <<poseVars, missionVars, runVars, jogVars, inits_left, editVars,
                   schedVars, classifyVars, timingVars, linkVars, notifyVars, sendVars, stepVars>>

ListenerAcquire(r) ==
    /\ listener[r].pc = "acquire"
    /\ movement_lock[r] = Free
    /\ movement_lock' = [movement_lock EXCEPT ![r] = ListenerTid]
    /\ listener' = [listener EXCEPT ![r].pc = "x"]
    /\ UNCHANGED <<current_position, pose_writer, missionVars, runVars, jogVars,
                   frames_left, inits_left, editVars, schedVars, classifyVars,
                   timingVars, linkVars, notifyVars, sendVars, stepVars>>

AfterAxis(a) == CASE a = "x" -> "y" [] a = "y" -> "z" [] a = "z" -> "t"
                  [] OTHER -> "unlock"

\* the axis write with a fixed default in place of the current value
ListenerWriteZero(r) ==
    /\ listener[r].pc \in Axes
    /\ LET a == listener[r].pc
       IN  /\ current_position' =
                  [current_position EXCEPT ![r][a] = Get(listener[r].data, a, 0)]
           /\ listener' = [listener EXCEPT ![r].pc = AfterAxis(a)]
    /\ pose_writer' = [pose_writer EXCEPT ![r] = ListenerTid]
    /\ UNCHANGED <<movement_lock, missionVars, runVars, jogVars, frames_left,
                   inits_left, editVars, schedVars, classifyVars,
                   timingVars, linkVars, notifyVars, sendVars, stepVars>>

\* self.current_position[a] = data.get(a, self.current_position[a])
ListenerWrite(r) ==
    /\ listener[r].pc \in Axes
    /\ LET a == listener[r].pc
       IN  /\ current_position' =
                  [current_position EXCEPT
                      ![r][a] = Get(listener[r].data, a, current_position[r][a])]
           /\ listener' = [listener EXCEPT ![r].pc = AfterAxis(a)]
    /\ pose_writer' = [pose_writer EXCEPT ![r] = ListenerTid]
    /\ UNCHANGED <<movement_lock, missionVars, runVars, jogVars, frames_left,
                   inits_left, editVars, schedVars, classifyVars,
                   timingVars, linkVars, notifyVars, sendVars, stepVars>>

ListenerRelease(r) ==
    /\ listener[r].pc = "unlock"
    /\ movement_lock' = [movement_lock EXCEPT ![r] = Free]
    /\ listener' = [listener EXCEPT ![r] = ListenerIdle]
    /\ UNCHANGED <<current_position, pose_writer, missionVars, runVars, jogVars,
                   frames_left, inits_left, editVars, schedVars, classifyVars,
                   timingVars, linkVars, notifyVars, sendVars, stepVars>>

SerialListener(r) ==
    \/ \E data \in InboundFrames : ListenerReceive(r, data)
    \/ ListenerAcquire(r)
    \/ ListenerWrite(r)
    \/ ListenerRelease(r)

-----------------------------------------------------------------------------
(* init_robot: the pose is reset to the startup pose, the move is sent and, *)
(* with a mission selected, recorded as a step                              *)

AppendStep(ms, name, step) ==
    [ms EXCEPT ![name].steps = Append(@, step)]

InitRobot(r) ==
    /\ GuiIdle
    /\ inits_left[r] > 0
    /\ inits_left' = [inits_left EXCEPT ![r] = @ - 1]
    /\ current_position' = [current_position EXCEPT ![r] = startup_position]
    /\ pose_writer' = [pose_writer EXCEPT ![r] = GuiTid]
    /\ IF selected_mission[r] # NoMission
       THEN missions' = [missions EXCEPT
                ![r] = AppendStep(@, selected_mission[r], MoveCmd(startup_position))]
       ELSE UNCHANGED missions
    /\ SendCommandInThread(r, GuiTid, MoveCmd(startup_position))
    /\ UNCHANGED <<movement_lock, selected_mission, runVars, jogVars, listenerVars,
                   editVars, schedVars, classifyVars, timingVars, linkVars,
                   notifyVars, stepVars>>

-----------------------------------------------------------------------------
(* Initial states *)

NoIndex == -1
NoMove == [start_index |-> NoIndex, drop |-> NoIndex, drop_index |-> NoIndex]

\* a frame after __init__, but for its missions
WorkersInit ==
    /\ current_position = [r \in Robots |-> startup_position]
    /\ movement_lock = [r \in Robots |-> Free]
    /\ pose_writer = [r \in Robots |-> GuiTid]
    /\ runs = [r \in Robots |-> <<>>]
    /\ mission_execution_stop_event = [r \in Robots |-> FALSE]
    /\ pending_play = {}
    /\ moving_thread = [r \in Robots |-> NoThread]
    /\ moving_stop_event = [r \in Robots |-> FALSE]
    /\ gui_pc = GuiIdleRec
    /\ jog_ticks = [r \in Robots |-> 0]

FrameInit ==
    /\ WorkersInit
    /\ listener = [r \in Robots |-> ListenerIdle]
    /\ frames_left = [r \in Robots |-> MaxFrames]
    /\ inits_left = [r \in Robots |-> MaxInits]

\* both frames hold mission m1 with the given steps, created and filled before
EngineInit(steps, selectable) ==
    /\ FrameInit
    /\ missions = [r \in Robots |-> ("m1" :> Mission("m1", "Mission", steps))]
    /\ selected_mission \in [Robots -> selectable]

EditIdle ==
    /\ mission_files = <<>>
    /\ dragging_start_index = [r \in Robots |-> NoIndex]
    /\ last_move = [r \in Robots |-> NoMove]
    /\ last_error = [r \in Robots |-> ""]

SchedIdle ==
    /\ clock = 1
    /\ task_objs = <<>>
    /\ scheduled_tasks = <<>>
    /\ tasks_tree = <<>>
    /\ monitors = <<>>
    /\ schedule_file = <<>>

ClassifyIdle ==
    /\ cl_step = NoStep
    /\ cl_result = ""

NoTc == [kind |-> "none"]

TimingIdle ==
    /\ tc_pose = startup_position
    /\ tc_step = NoStep
    /\ tc_result = NoTc

\* __init__ with the port opened: the listener thread runs, nothing is closing
NotClosing == [pc |-> "idle", calls |-> 0]

LinkIdle ==
    /\ ser = [r \in Robots |-> "open"]
    /\ serial_listener_stop_event = [r \in Robots |-> FALSE]
    /\ closing = [r \in Robots |-> NotClosing]

\* __init__: an empty Queue, process_gui_queue scheduled in 100 ms
NotifyIdle ==
    /\ gui_queue = [r \in Robots |-> <<>>]
    /\ gui_executed = [r \in Robots |-> <<>>]
    /\ consumer = [r \in Robots |-> "waiting"]
    /\ emitted = [r \in Robots |-> 0]

\* no send() thread is followed: the port's content is not recorded
SendIdle ==
    /\ followed = {}
    /\ send_threads = [r \in Robots |-> <<>>]
    /\ wire = [r \in Robots |-> <<>>]

\* no step was played on its own
StepIdle == step_threads = [r \in Robots |-> <<>>]

-----------------------------------------------------------------------------
(* Spec: the mission runs of both robots, started from the robot tabs, the   *)
(* global controls or a scheduler thread                                      *)

Init ==
    /\ EngineInit(<<MoveA>>, {NoMission, "m1"})
    /\ EditIdle /\ SchedIdle /\ ClassifyIdle /\ TimingIdle /\ LinkIdle
    /\ NotifyIdle /\ SendIdle /\ StepIdle

Next ==
    \/ \E r \in Robots, times \in 1..MaxTimes : PlayMissionSpecific(r, times)
    \/ \E times \in 1..MaxTimes : PlayBothMissions(times)
    \/ \E r \in Robots : PlayRobotThread(r)
    \/ \E r \in Robots : RunThread(r)

Spec == Init /\ [][Next]_vars

-----------------------------------------------------------------------------
(* SpecPose: every worker that touches the pose of one robot                 *)

PoseRobot == "Robot 1"

\* the robot whose missions are edited
EditRobot == "Robot 1"

InitPose ==
    /\ EngineInit(<<MoveA>>, {"m1"})
    /\ EditIdle /\ SchedIdle /\ ClassifyIdle /\ TimingIdle /\ LinkIdle
    /\ NotifyIdle /\ SendIdle /\ StepIdle

NextPose ==
    \/ Len(runs[PoseRobot]) < MaxPoseRuns /\ PlayMissionSpecific(PoseRobot, 1)
    \/ RunThread(PoseRobot)
    \/ JogController(PoseRobot)
    \/ SerialListener(PoseRobot)
    \/ InitRobot(PoseRobot)

SpecPose == InitPose /\ [][NextPose]_vars

-----------------------------------------------------------------------------
(* SpecJog: jog ticks and the movement commits of mission runs on one robot  *)

InitJog ==
    /\ EngineInit(<<MoveA, MoveB>>, {"m1"})
    /\ EditIdle /\ SchedIdle /\ ClassifyIdle /\ TimingIdle /\ LinkIdle
    /\ NotifyIdle /\ SendIdle /\ StepIdle

NextJog ==
    \/ PlayMissionSpecific(PoseRobot, 1)
    \/ RunThread(PoseRobot)
    \/ JogController(PoseRobot)

SpecJog == InitJog /\ [][NextJog]_vars

-----------------------------------------------------------------------------
(* Claims about the mission runs and the pose *)

ActiveRuns(r) == {k \in 1..Len(runs[r]) : RunActive(r, k)}

\* C1: for each robot at most one mission run is active in every reachable
\* state: play_mission_specific called while an earlier run of the robot has
\* not ended does not start a second, concurrently executing run.
C1_AtMostOneActiveRun ==
    \A r \in Robots : Cardinality(ActiveRuns(r)) <= 1

\* C2: the engine provides a cancellation path: whenever a run of a robot is
\* active some step of the program raises the robot's cancellation signal; a
\* run that observed the signal at a step boundary has ended, reports stopped
\* (never completed) and executed no more steps than it had issued.
C2_CancellationPath ==
    \A r \in Robots : \A k \in 1..Len(runs[r]) :
        /\ RunActive(r, k) =>
              ENABLED (Next /\ mission_execution_stop_event'[r])
        /\ runs[r][k].outcome = "stopped" =>
              /\ runs[r][k].pc = "done"
              /\ runs[r][k].executed < runs[r][k].total

\* C3: every mutation of a robot's pose (movement commit, jog tick, telemetry,
\* reset to the startup pose) is made by a worker that holds the robot's
\* movement_lock when it makes it.
C3_PoseMutatedUnderLock ==
    [][\A r \in Robots :
          current_position'[r] # current_position[r]
              => movement_lock[r] = pose_writer'[r]]_vars

MovementSteps(r) ==
    UNION {{m.steps[i] : i \in {j \in 1..Len(m.steps) : m.steps[j]["T"] = 104}}
              : m \in {missions[r][n] : n \in DOMAIN missions[r]}}

CommittedPoses(r) ==
    {startup_position}
        \cup {[a \in Axes |-> stp[a]] : stp \in MovementSteps(r)}

AxisIncrement(a) == IF a = "t" THEN t_increment ELSE xyz_increment

JogReachable(d, inc) == \E n \in (0 - MaxJogTicks)..MaxJogTicks : d = n * inc

Whole(pos, r) ==
    \E c \in CommittedPoses(r) :
        \A a \in Axes : JogReachable(pos[a] - c[a], AxisIncrement(a))

\* C4: under any interleaving of jog ticks and movement commits on one robot
\* the pose seen under the guard is whole: the four values of one commit (or of
\* the startup pose) plus complete jog increments, never axes of two commits.
C4_PoseWhole ==
    \A r \in Robots :
        movement_lock[r] = Free => Whole(current_position[r], r)

\* a jog tick has landed on the pose the second movement step committed, while
\* a second run is still under way
C4_Witness ==
    /\ current_position[PoseRobot] = [x |-> 303, y |-> -50, z |-> 50, t |-> 157]
    /\ pose_writer[PoseRobot] = JogTid
    /\ movement_lock[PoseRobot] = Free
    /\ ActiveRuns(PoseRobot) # {}

-----------------------------------------------------------------------------
(* SchedulerFrame.                                                           *)
(*                                                                           *)
(* Time: a time of day is a whole tick 0..TicksPerDay-1 and the instant of   *)
(* tick n is the even number 2n; the wall clock read by datetime.now() is an *)
(* odd number, an instant strictly between two ticks.                        *)

DayLen == 2 * TicksPerDay
DaysPerWeek == 7
InvalidTime == -1
NoTarget == -1

TimesOfDay == 0..(TicksPerDay - 1)
Recurrences == {"Once", "Daily", "Weekly"}
MissionFilePaths == {"a.mission"}

\* Whether open(), readlines() and json.loads(lines[0]) of the mission file
\* succeed is decided by the file system when the task triggers.
FileLoads == BOOLEAN

\* datetime.combine(now.date(), scheduled_time)
Today(now) == (now \div DayLen) * DayLen
ScheduledDatetime(now, tod) == Today(now) + 2 * tod

\* A task dict.  origin is bookkeeping, not a key of the dict: the task dict
\* first added, of which this one is the saved and loaded copy.
Task(robot, file, tod, rec, status, origin) ==
    [robot |-> robot, mission_file |-> file, scheduled_time |-> tod,
     recurrence |-> rec, status |-> status, origin |-> origin]

\* A row of tasks_tree.  owner is bookkeeping: the task dict the row was
\* inserted for.
Row(owner, task, status) ==
    [owner |-> owner, robot |-> task.robot, file |-> task.mission_file,
     time |-> task.scheduled_time, recurrence |-> task.recurrence,
     status |-> status]

NewMonitor(pc) == [pc |-> pc, target |-> NoTarget, calls |-> 0, exit |-> ""]

RowMatches(row, task) ==
    /\ row.robot = task.robot
    /\ row.file = task.mission_file
    /\ row.time = task.scheduled_time
    /\ row.recurrence = task.recurrence

TaskMatches(task, row) == RowMatches(row, task)

\* the first of the indexes hits ("for ... if ...: ...; break"), 0 when there
\* is none
FirstIndex(hits) ==
    IF hits = {} THEN 0 ELSE CHOOSE i \in hits : \A j \in hits : i <= j

RemoveAt(seq, i) == SubSeq(seq, 1, i - 1) \o SubSeq(seq, i + 1, Len(seq))

\* update_task_status: the first row with the task's robot, file name, time and
\* recurrence gets the status
UpdateTaskStatus(tree, task, status) ==
    LET i == FirstIndex({k \in 1..Len(tree) : RowMatches(tree[k], task)})
    IN  IF i = 0 THEN tree ELSE [tree EXCEPT ![i].status = status]

SetStatus(id, status) ==
    tasks_tree' = UpdateTaskStatus(tasks_tree, task_objs[id], status)

SetMonitor(id, m) == monitors' = [monitors EXCEPT ![id] = m]

AddToSchedule(robot, file, tod, rec) ==
    /\ GuiIdle
    /\ Len(task_objs) < MaxTaskObjs
    /\ LET id == Len(task_objs) + 1
           task == Task(robot, file, tod, rec, "Pending", id)
       IN  /\ task_objs' = Append(task_objs, task)
           /\ tasks_tree' = Append(tasks_tree, Row(id, task, "Pending"))
           /\ scheduled_tasks' = Append(scheduled_tasks, id)
           /\ monitors' = Append(monitors, NewMonitor("compute"))
    /\ UNCHANGED <<clock, schedule_file, poseVars, missionVars, runVars, jogVars,
                   listenerVars, inits_left, editVars, classifyVars,
                   timingVars, linkVars, notifyVars, sendVars, stepVars>>

\* the top of monitor_task's loop: now, the scheduled time, the wait
MonitorCompute(id) ==
    /\ monitors[id].pc = "compute"
    /\ LET task == task_objs[id]
           now == clock
           today == ScheduledDatetime(now, task.scheduled_time)
           passed == today < now
           target == IF ~ passed THEN today
                     ELSE IF task.recurrence = "Daily" THEN today + DayLen
                     ELSE today + DaysPerWeek * DayLen
       IN  IF task.scheduled_time = InvalidTime
           THEN /\ SetStatus(id, "Invalid Time Format")
                /\ SetMonitor(id, [monitors[id] EXCEPT
                                      !.pc = "done", !.exit = "invalid_time"])
           ELSE IF passed /\ task.recurrence \notin {"Daily", "Weekly"}
           THEN /\ SetStatus(id, "Time Passed")
                /\ SetMonitor(id, [monitors[id] EXCEPT
                                      !.pc = "done", !.exit = "time_passed"])
           ELSE /\ SetMonitor(id, [monitors[id] EXCEPT
                                      !.pc = "sleep", !.target = target])
                /\ UNCHANGED tasks_tree
    /\ UNCHANGED <<clock, task_objs, scheduled_tasks, schedule_file, poseVars,
                   missionVars, runVars, jogVars, listenerVars, inits_left,
                   editVars, classifyVars, timingVars, linkVars, notifyVars, sendVars, stepVars>>

\* time.sleep(time_to_wait) is over; the status becomes Running
MonitorWake(id) ==
    /\ monitors[id].pc = "sleep"
    /\ clock >= monitors[id].target
    /\ SetStatus(id, "Running")
    /\ SetMonitor(id, [monitors[id] EXCEPT !.pc = "load"])
    /\ UNCHANGED <<clock, task_objs, scheduled_tasks, schedule_file, poseVars,
                   missionVars, runVars, jogVars, listenerVars, inits_left,
                   editVars, classifyVars, timingVars, linkVars, notifyVars, sendVars, stepVars>>

\* the mission file is loaded and play_mission_specific(1) called on the robot
MonitorExecute(id) ==
    /\ monitors[id].pc = "load"
    /\ \E loads \in FileLoads :
       LET task == task_objs[id]
       IN  IF ~ loads
           THEN /\ SetStatus(id, "Failed to Load")
                /\ SetMonitor(id, [monitors[id] EXCEPT
                                      !.pc = "done", !.exit = "load_failed"])
                /\ UNCHANGED <<runs, mission_execution_stop_event>>
           ELSE IF task.robot \in Robots
           THEN /\ selected_mission[task.robot] = NoMission
                   \/ Len(runs[task.robot]) < MaxRuns
                /\ PlayEffect(task.robot, 1)
                /\ SetMonitor(id, [monitors[id] EXCEPT
                                      !.pc = "completed", !.calls = @ + 1])
                /\ UNCHANGED tasks_tree
           ELSE /\ SetStatus(id, "Unknown Robot")
                /\ SetMonitor(id, [monitors[id] EXCEPT
                                      !.pc = "done", !.exit = "unknown_robot"])
                /\ UNCHANGED <<runs, mission_execution_stop_event>>
    /\ UNCHANGED <<clock, task_objs, scheduled_tasks, schedule_file, poseVars,
                   missionVars, pending_play, jogVars, listenerVars, inits_left,
                   editVars, classifyVars, timingVars, linkVars, notifyVars, sendVars, stepVars>>

MonitorCompleted(id) ==
    /\ monitors[id].pc = "completed"
    /\ SetStatus(id, "Completed")
    /\ SetMonitor(id, [monitors[id] EXCEPT !.pc = "recur"])
    /\ UNCHANGED <<clock, task_objs, scheduled_tasks, schedule_file, poseVars,
                   missionVars, runVars, jogVars, listenerVars, inits_left,
                   editVars, classifyVars, timingVars, linkVars, notifyVars, sendVars, stepVars>>

\* "Handle recurrence": Once leaves the loop, Daily and Weekly go back to Pending
MonitorRecur(id) ==
    /\ monitors[id].pc = "recur"
    /\ IF task_objs[id].recurrence = "Once"
       THEN /\ SetMonitor(id, [monitors[id] EXCEPT !.pc = "done", !.exit = "once"])
            /\ UNCHANGED tasks_tree
       ELSE IF task_objs[id].recurrence \in {"Daily", "Weekly"}
       THEN /\ SetStatus(id, "Pending")
            /\ SetMonitor(id, [monitors[id] EXCEPT !.pc = "compute"])
       ELSE /\ SetMonitor(id, [monitors[id] EXCEPT !.pc = "compute"])
            /\ UNCHANGED tasks_tree
    /\ UNCHANGED <<clock, task_objs, scheduled_tasks, schedule_file, poseVars,
                   missionVars, runVars, jogVars, listenerVars, inits_left,
                   editVars, classifyVars, timingVars, linkVars, notifyVars, sendVars, stepVars>>

MonitorTask(id) ==
    \/ MonitorCompute(id)
    \/ MonitorWake(id)
    \/ MonitorExecute(id)
    \/ MonitorCompleted(id)
    \/ MonitorRecur(id)

\* delete_selected_task, with row i selected
DeleteSelectedTask(i) ==
    /\ GuiIdle
    /\ i \in 1..Len(tasks_tree)
    /\ IF tasks_tree[i].status = "Running"
       THEN UNCHANGED <<scheduled_tasks, tasks_tree>>
       ELSE LET j == FirstIndex({k \in 1..Len(scheduled_tasks) :
                        TaskMatches(task_objs[scheduled_tasks[k]], tasks_tree[i])})
            IN  /\ scheduled_tasks' =
                       IF j = 0 THEN scheduled_tasks ELSE RemoveAt(scheduled_tasks, j)
                /\ tasks_tree' = RemoveAt(tasks_tree, i)
    /\ UNCHANGED <<clock, task_objs, monitors, schedule_file, poseVars,
                   missionVars, runVars, jogVars, listenerVars, inits_left,
                   editVars, classifyVars, timingVars, linkVars, notifyVars, sendVars, stepVars>>

\* save_schedule: json.dump(self.scheduled_tasks)
SaveSchedule ==
    /\ GuiIdle
    /\ scheduled_tasks # <<>>
    /\ schedule_file' = [i \in 1..Len(scheduled_tasks) |-> task_objs[scheduled_tasks[i]]]
    /\ UNCHANGED <<clock, task_objs, scheduled_tasks, tasks_tree, monitors,
                   poseVars, missionVars, runVars, jogVars, listenerVars,
                   inits_left, editVars, classifyVars, timingVars, linkVars, notifyVars, sendVars, stepVars>>

\* load_schedule: the tree and the list are cleared and filled from the file; a
\* monitor is started for every loaded task whose status is Pending
LoadSchedule ==
    /\ GuiIdle
    /\ schedule_file # <<>>
    /\ Len(task_objs) + Len(schedule_file) <= MaxTaskObjs
    /\ LET n == Len(task_objs)
           loaded == schedule_file
           ids == [i \in 1..Len(loaded) |-> n + i]
       IN  /\ task_objs' = task_objs \o loaded
           /\ scheduled_tasks' = ids
           /\ tasks_tree' = [i \in 1..Len(loaded) |->
                                Row(ids[i], loaded[i], loaded[i].status)]
           /\ monitors' = monitors \o
                  [i \in 1..Len(loaded) |->
                      IF loaded[i].status = "Pending"
                      THEN NewMonitor("compute") ELSE NewMonitor("none")]
    /\ UNCHANGED <<clock, schedule_file, poseVars, missionVars, runVars, jogVars,
                   listenerVars, inits_left, editVars, classifyVars,
                   timingVars, linkVars, notifyVars, sendVars, stepVars>>

\* The clock moves in steps of half a day: a monitor that is not asleep until a
\* later instant acts, and a started run finishes, before the clock moves on.
MonitorDue(id) ==
    /\ monitors[id].pc \notin {"none", "done"}
    /\ monitors[id].pc = "sleep" => monitors[id].target <= clock

Tick ==
    /\ clock + 2 < MaxDays * DayLen
    /\ \A id \in 1..Len(monitors) : ~ MonitorDue(id)
    /\ \A r \in Robots : \A k \in 1..Len(runs[r]) : ~ RunActive(r, k)
    /\ clock' = clock + 2
    /\ UNCHANGED <<task_objs, scheduled_tasks, tasks_tree, monitors,
                   schedule_file, poseVars, missionVars, runVars, jogVars,
                   listenerVars, inits_left, editVars, classifyVars,
                   timingVars, linkVars, notifyVars, sendVars, stepVars>>

-----------------------------------------------------------------------------
(* SpecSched: the scheduler and the runs it starts.  Robot 1 has a mission    *)
(* selected, Robot 2 has none.                                               *)

InitSched ==
    /\ EngineInit(<<MoveA>>, {NoMission, "m1"})
    /\ selected_mission["Robot 1"] = "m1"
    /\ selected_mission["Robot 2"] = NoMission
    /\ EditIdle /\ SchedIdle /\ ClassifyIdle /\ TimingIdle /\ LinkIdle
    /\ NotifyIdle /\ SendIdle /\ StepIdle

NextSched ==
    \/ \E robot \in Robots, file \in MissionFilePaths, tod \in TimesOfDay,
          rec \in Recurrences : AddToSchedule(robot, file, tod, rec)
    \/ \E id \in 1..Len(monitors) : MonitorTask(id)
    \/ \E r \in Robots : RunThread(r)
    \/ \E i \in 1..Len(tasks_tree) : DeleteSelectedTask(i)
    \/ SaveSchedule
    \/ LoadSchedule
    \/ Tick

SpecSched == InitSched /\ [][NextSched]_vars

-----------------------------------------------------------------------------
(* Claims about the scheduler                                                *)

TaskIds == 1..Len(task_objs)

RECURSIVE CallsUpTo(_, _)
CallsUpTo(o, n) ==
    IF n = 0 THEN 0
    ELSE CallsUpTo(o, n - 1)
            + (IF task_objs[n].origin = o THEN monitors[n].calls ELSE 0)

\* the calls of play_mission_specific made for the task first added as dict o,
\* by the monitors of the dict and of its saved and loaded copies
EngineCalls(o) == CallsUpTo(o, Len(task_objs))

\* the status shown for task dict id, in the row inserted for it
NoRow == "<no row>"
OwnRowStatus(id) ==
    LET i == FirstIndex({k \in 1..Len(tasks_tree) : tasks_tree[k].owner = id})
    IN  IF i = 0 THEN NoRow ELSE tasks_tree[i].status

\* C5: a task of recurrence Once invokes the Execution Engine at most once,
\* over any sequence of add, monitor progress, save, load and delete.
C5_OnceAtMostOnce ==
    \A o \in TaskIds :
        (task_objs[o].origin = o /\ task_objs[o].recurrence = "Once")
            => EngineCalls(o) <= 1

\* C6: when the monitor of a Once task finds today's scheduled instant earlier
\* than now, the task's status goes from Pending to Time Passed, the monitor
\* terminates and has never invoked the Execution Engine.
C6_OncePassedGoesTimePassed ==
    [][\A id \in TaskIds :
          ( /\ task_objs[id].recurrence = "Once"
            /\ monitors[id].pc = "compute"
            /\ ScheduledDatetime(clock, task_objs[id].scheduled_time) < clock
            /\ monitors'[id] # monitors[id]
            /\ OwnRowStatus(id) # NoRow )
          => /\ OwnRowStatus(id) = "Pending"
             /\ OwnRowStatus(id)' = "Time Passed"
             /\ monitors'[id].pc = "done"
             /\ monitors'[id].calls = 0]_vars

\* C7: each trigger of a Daily task shows Running, then Completed, then
\* Pending, and the wait target computed after a trigger is exactly one day
\* after the target of that trigger.
DailyStep(id, from, to) ==
    /\ task_objs[id].recurrence = "Daily"
    /\ monitors[id].pc = from
    /\ monitors'[id].pc = to
    /\ OwnRowStatus(id) # NoRow
    /\ OwnRowStatus(id)' # NoRow

C7_DailyStatusSequence ==
    [][\A id \in TaskIds :
          /\ DailyStep(id, "sleep", "load") => OwnRowStatus(id)' = "Running"
          /\ DailyStep(id, "completed", "recur") =>
                 /\ OwnRowStatus(id) = "Running"
                 /\ OwnRowStatus(id)' = "Completed"
          /\ DailyStep(id, "recur", "compute") =>
                 /\ OwnRowStatus(id) = "Completed"
                 /\ OwnRowStatus(id)' = "Pending"
          /\ (DailyStep(id, "compute", "sleep") /\ monitors[id].calls > 0) =>
                 monitors'[id].target = monitors[id].target + DayLen]_vars

\* the timing half of C7 alone
DailyNextTarget ==
    [][\A id \in TaskIds :
          ( /\ task_objs[id].recurrence = "Daily"
            /\ monitors[id].pc = "compute"
            /\ monitors'[id].pc = "sleep"
            /\ monitors[id].calls > 0 )
          => monitors'[id].target = monitors[id].target + DayLen]_vars

DailySecondTrigger ==
    \E id \in TaskIds :
        /\ task_objs[id].recurrence = "Daily"
        /\ monitors[id].calls = 2

-----------------------------------------------------------------------------
(* Drag and drop in the step list: on_treeview_click, on_treeview_drop       *)

\* list.pop(i) leaves the list without its element of index i (from 0)
Pop(steps, i) == SubSeq(steps, 1, i) \o SubSeq(steps, i + 2, Len(steps))

\* list.insert(i, stp); an index beyond the end appends
Insert(steps, i, stp) ==
    LET k == IF i > Len(steps) THEN Len(steps) ELSE i
    IN  SubSeq(steps, 1, k) \o <<stp>> \o SubSeq(steps, k + 1, Len(steps))

DropIndexUnshifted(start_index, drop) == drop

\* "if drop_index > start_index: drop_index -= 1"
DropIndex(start_index, drop) ==
    IF drop > start_index THEN drop - 1 ELSE drop

\* show_error(title, message) of a mission handler; "" when the handler did its
\* work without one
ShowError(r, message) == last_error' = [last_error EXCEPT ![r] = message]
Done(r) == last_error' = [last_error EXCEPT ![r] = ""]

\* the rows of mission_steps_tree, as update_mission_steps_viewer fills it
TreeRows(r) ==
    IF selected_mission[r] \in DOMAIN missions[r]
    THEN Len(missions[r][selected_mission[r]].steps)
    ELSE 0

\* row is the index of the row under the pointer, NoIndex when there is none
OnTreeviewClick(r, row) ==
    /\ GuiIdle
    /\ row \in (0..(TreeRows(r) - 1)) \cup {NoIndex}
    /\ dragging_start_index' = [dragging_start_index EXCEPT ![r] = row]
    /\ Done(r)
    /\ UNCHANGED <<mission_files, last_move, poseVars, missionVars, runVars,
                   jogVars, listenerVars, inits_left, schedVars, classifyVars,
                   timingVars, linkVars, notifyVars, sendVars, stepVars>>

\* a start index that a deletion left beyond the end makes pop raise IndexError,
\* which the handler catches
OnTreeviewDrop(r, row) ==
    /\ GuiIdle
    /\ row \in (0..(TreeRows(r) - 1)) \cup {NoIndex}
    /\ IF dragging_start_index[r] = NoIndex
       THEN UNCHANGED <<missions, dragging_start_index, last_move, last_error>>
       ELSE LET steps == missions[r][selected_mission[r]].steps
                drop == IF row = NoIndex THEN Len(steps) ELSE row
                start_index == dragging_start_index[r]
                drop_index == DropIndex(start_index, drop)
            IN  /\ IF start_index >= Len(steps)
                   THEN /\ ShowError(r, "Failed to move step")
                        /\ UNCHANGED <<missions, last_move>>
                   ELSE /\ missions' = [missions EXCEPT ![r][selected_mission[r]].steps =
                                           Insert(Pop(steps, start_index), drop_index,
                                                  steps[start_index + 1])]
                        /\ last_move' = [last_move EXCEPT ![r] =
                                            [start_index |-> start_index, drop |-> drop,
                                             drop_index |-> drop_index]]
                        /\ Done(r)
                /\ dragging_start_index' = [dragging_start_index EXCEPT ![r] = NoIndex]
    /\ UNCHANGED <<mission_files, selected_mission, poseVars, runVars, jogVars,
                   listenerVars, inits_left, schedVars, classifyVars,
                   timingVars, linkVars, notifyVars, sendVars, stepVars>>

-----------------------------------------------------------------------------
(* SpecReorder: steps are dragged in missions of up to MaxSteps steps.  The   *)
(* mission of Robot 2 is empty, its step list shows no row.                  *)

ReorderSteps == {MoveA, Delay500, SuctionOn}

StepLists(n) == UNION {[1..k -> ReorderSteps] : k \in 0..n}

InitReorder ==
    /\ FrameInit
    /\ \E steps \in StepLists(MaxSteps) :
           missions = [r \in Robots |->
                          "m1" :> Mission("m1", "Mission",
                                          IF r = EditRobot THEN steps ELSE <<>>)]
    /\ selected_mission \in [Robots -> {NoMission, "m1"}]
    /\ EditIdle /\ SchedIdle /\ ClassifyIdle /\ TimingIdle /\ LinkIdle
    /\ NotifyIdle /\ SendIdle /\ StepIdle

NextReorder ==
    \E r \in Robots :
        \/ \E row \in (0..(MaxSteps - 1)) \cup {NoIndex} : OnTreeviewClick(r, row)
        \/ \E row \in (0..(MaxSteps - 1)) \cup {NoIndex} : OnTreeviewDrop(r, row)

SpecReorder == InitReorder /\ [][NextReorder]_vars

\* the list without its element of index i, and with e put at index d
Without(s, i) == [k \in 1..(Len(s) - 1) |-> IF k <= i THEN s[k] ELSE s[k + 1]]
WithAt(s, d, e) ==
    [k \in 1..(Len(s) + 1) |-> IF k <= d THEN s[k] ELSE IF k = d + 1 THEN e ELSE s[k - 1]]

Occurrences(s, e) == Cardinality({k \in 1..Len(s) : s[k] = e})
IsPermutation(s, t) ==
    /\ Len(s) = Len(t)
    /\ \A k \in 1..Len(s) : Occurrences(s, s[k]) = Occurrences(t, s[k])

StepsOf(r) == missions[r][selected_mission[r]].steps

\* C8: a step dragged from index i and dropped at position j leaves the list
\* with the element of index i removed and put at j - 1 when j > i, at j when
\* j <= i; the result is a permutation of the steps, of the same length.
C8_ReorderRemoveInsert ==
    [][\A r \in Robots :
          last_move'[r] # last_move[r] \/ missions'[r] # missions[r] =>
              LET i == dragging_start_index[r]
                  j == last_move'[r].drop
                  s == StepsOf(r)
              IN  /\ i \in 0..(Len(s) - 1)
                  /\ j \in 0..Len(s)
                  /\ last_move'[r].start_index = i
                  /\ StepsOf(r)' = WithAt(Without(s, i), IF j > i THEN j - 1 ELSE j, s[i + 1])
                  /\ IsPermutation(s, StepsOf(r)')]_vars

\* index 0 was dropped at position 3 of a 4-step mission: the step is at index 2
C8_Witness ==
    \E r \in Robots :
        /\ last_move[r] = [start_index |-> 0, drop |-> 3, drop_index |-> 2]
        /\ selected_mission[r] = "m1"
        /\ StepsOf(r) = <<Delay500, SuctionOn, MoveA, Delay500>>

-----------------------------------------------------------------------------
(* get_step_type                                                             *)

get_step_type_pwm_a_only(step) ==
    LET t_value == Get(step, "T", NoCode)
    IN  IF t_value = 104 THEN "movement"
        ELSE IF t_value = 113
             THEN IF "pwm_a" \in DOMAIN step THEN "suction" ELSE "relay"
        ELSE IF t_value = 111 THEN "delay"
        ELSE IF t_value = 114 THEN "led"
        ELSE IF t_value = 210 THEN "torque"
        ELSE IF t_value = 112 THEN "dynamic_adaptation"
        ELSE "other"

get_step_type(step) ==
    LET t_value == Get(step, "T", NoCode)
    IN  IF t_value = 104 THEN "movement"
        ELSE IF t_value = 113
             THEN IF "pwm_a" \in DOMAIN step /\ "pwm_b" \in DOMAIN step
                  THEN "suction" ELSE "relay"
        ELSE IF t_value = 111 THEN "delay"
        ELSE IF t_value = 114 THEN "led"
        ELSE IF t_value = 210 THEN "torque"
        ELSE IF t_value = 112 THEN "dynamic_adaptation"
        ELSE "other"

\* one call of get_step_type, on any step
GetStepType(step) ==
    /\ cl_step' = step
    /\ cl_result' = get_step_type(step)
    /\ UNCHANGED <<poseVars, missionVars, runVars, jogVars, listenerVars,
                   inits_left, editVars, schedVars, timingVars, linkVars, notifyVars, sendVars, stepVars>>

-----------------------------------------------------------------------------
(* SpecClassify: steps of every code, with and without the fields that the   *)
(* classification looks at                                                   *)

ClassifyCodes == {104, 113, 111, 114, 210, 112, 105, 0, NoCode}
ClassifyFields == {"pwm_a", "pwm_b", "cmd"}

\* the step with code c (no "T" key when c is NoCode) and the fields fs, each
\* of value 1
StepWith(c, fs) ==
    [k \in fs \cup (IF c = NoCode THEN {} ELSE {"T"}) |-> IF k = "T" THEN c ELSE 1]

ClassifySteps == {StepWith(c, fs) : c \in ClassifyCodes, fs \in SUBSET ClassifyFields}

InitClassify ==
    /\ EngineInit(<<MoveA>>, {"m1"})
    /\ EditIdle /\ SchedIdle /\ TimingIdle /\ LinkIdle
    /\ NotifyIdle /\ SendIdle /\ StepIdle
    /\ cl_step \in ClassifySteps
    /\ cl_result = ""

NextClassify == \E step \in ClassifySteps : GetStepType(step)

SpecClassify == InitClassify /\ [][NextClassify]_vars

TypeOfCode ==
    (104 :> "Movement") @@ (111 :> "Delay") @@ (114 :> "LED") @@ (210 :> "Torque")
        @@ (112 :> "DynamicAdaptation")

\* the names get_step_type gives to the kinds
KindName ==
    ("Movement" :> "movement") @@ ("Suction" :> "suction") @@ ("Relay" :> "relay")
        @@ ("Delay" :> "delay") @@ ("LED" :> "led") @@ ("Torque" :> "torque")
        @@ ("DynamicAdaptation" :> "dynamic_adaptation") @@ ("Other" :> "other")

KindOf(step) ==
    IF "T" \notin DOMAIN step THEN "Other"
    ELSE IF step["T"] = 113
         THEN IF {"pwm_a", "pwm_b"} \subseteq DOMAIN step THEN "Suction" ELSE "Relay"
    ELSE IF step["T"] \in DOMAIN TypeOfCode THEN TypeOfCode[step["T"]]
    ELSE "Other"

\* C9: the classification is the kind fixed by the code and the presence of
\* both pwm fields, the same step classifies the same way at every call, and a
\* call changes nothing but its own result.
C9_ClassificationTotalDeterministic ==
    /\ [](cl_result # "" => cl_result = KindName[KindOf(cl_step)])
    /\ [][/\ cl_result' \in {KindName[k] : k \in DOMAIN KindName}
          /\ (cl_step' = cl_step /\ cl_result # "") => cl_result' = cl_result
          /\ UNCHANGED <<poseVars, missionVars, runVars, jogVars, listenerVars,
                         inits_left, editVars, schedVars, timingVars,
                         linkVars, notifyVars, sendVars, stepVars>>]_vars

\* code 113 with only one pwm field was classified, as a relay
C9_Witness ==
    /\ cl_step = StepWith(113, {"pwm_a", "cmd"})
    /\ cl_result = "relay"

-----------------------------------------------------------------------------
(* Missions and mission files: create_mission, add_step, add_delay,          *)
(* save_mission, load_mission                                                *)
(*                                                                           *)
(* A mission file is a sequence of lines.  A line of JSON text is modelled   *)
(* by the sequence of its <<key, value>> members, in the order written.      *)

Line(pairs) == [valid |-> TRUE, pairs |-> pairs]
BadLine == [valid |-> FALSE, pairs |-> <<>>]

\* the order in which the keys of the dicts of the program are inserted
KeyOrder ==
    <<"name", "intro", "T", "x", "y", "z", "t", "spd", "acc", "cmd", "pwm_a",
      "pwm_b", "led">>

\* json.dumps(d, separators=(',', ':'))
Dumps(d) ==
    LET Has(k) == k \in DOMAIN d
        keys == SelectSeq(KeyOrder, Has)
    IN  Line([i \in 1..Len(keys) |-> <<keys[i], d[keys[i]]>>])

\* json.loads(line.strip()) of a valid line: the last member of a key wins
Loads(line) ==
    LET ps == line.pairs
        Last(k) == CHOOSE i \in 1..Len(ps) :
                       /\ ps[i][1] = k
                       /\ \A j \in 1..Len(ps) : ps[j][1] = k => j <= i
    IN  [k \in {ps[i][1] : i \in 1..Len(ps)} |-> ps[Last(k)][2]]

\* a load that looks at the header line only
LoadRaisesHeaderOnly(lines) ==
    \/ Len(lines) = 0
    \/ ~ lines[1].valid

\* load_mission's try block raises before it changes anything
LoadRaises(lines) ==
    \/ Len(lines) = 0
    \/ \E i \in 1..Len(lines) : ~ lines[i].valid

\* the mission load_mission stores for the lines of a file
LoadedMission(lines) ==
    LET header == Loads(lines[1])
        name == Get(header, "name", "unnamed_mission")
        steps == [i \in 1..(Len(lines) - 1) |-> Loads(lines[i + 1])]
    IN  Mission(name, Get(header, "intro", "Mission"), steps)

\* the lines save_mission writes for a mission
SavedLines(data) ==
    <<Dumps([name |-> data.name, intro |-> "Mission"])>>
        \o [i \in 1..Len(data.steps) |-> Dumps(data.steps[i])]

\* create_mission that replaces a mission of the same name
CreateMissionOverwrite(r, name) ==
    /\ GuiIdle
    /\ missions' = [missions EXCEPT ![r] = (name :> Mission(name, "Mission", <<>>)) @@ @]
    /\ selected_mission' = [selected_mission EXCEPT ![r] = name]
    /\ Done(r)
    /\ UNCHANGED <<poseVars, runVars, jogVars, listenerVars, inits_left,
                   mission_files, dragging_start_index, last_move, schedVars,
                   classifyVars, timingVars, linkVars, notifyVars, sendVars, stepVars>>

CreateMission(r, name) ==
    /\ GuiIdle
    /\ IF name \in DOMAIN missions[r]
       THEN /\ ShowError(r, "Mission already exists")
            /\ UNCHANGED <<missions, selected_mission>>
       ELSE /\ missions' = [missions EXCEPT
                               ![r] = (name :> Mission(name, "Mission", <<>>)) @@ @]
            /\ selected_mission' = [selected_mission EXCEPT ![r] = name]
            /\ Done(r)
    /\ UNCHANGED << poseVars, runVars, jogVars, listenerVars, inits_left,
                   mission_files, dragging_start_index, last_move, schedVars,
                   classifyVars, timingVars, linkVars, notifyVars, sendVars, stepVars>>

AddStep(r) ==
    /\ GuiIdle
    /\ IF selected_mission[r] = NoMission
       THEN /\ ShowError(r, "No mission selected")
            /\ UNCHANGED missions
       ELSE /\ Len(missions[r][selected_mission[r]].steps) < MaxMissionSteps
            /\ missions' = [missions EXCEPT
                   ![r] = AppendStep(@, selected_mission[r], MoveCmd(current_position[r]))]
            /\ Done(r)
    /\ UNCHANGED <<selected_mission, poseVars, runVars, jogVars, listenerVars, inits_left,
                   mission_files, dragging_start_index, last_move, schedVars,
                   classifyVars, timingVars, linkVars, notifyVars, sendVars, stepVars>>

NoDelay == -1000
DelayInputs == {NoDelay, -1, 500}

\* delay is the answer of the dialog, NoDelay when it was cancelled
AddDelay(r, delay) ==
    /\ GuiIdle
    /\ IF selected_mission[r] = NoMission
       THEN /\ ShowError(r, "No mission selected")
            /\ UNCHANGED missions
       ELSE IF delay = NoDelay \/ delay < 0
       THEN /\ ShowError(r, "Delay must be a non-negative integer.")
            /\ UNCHANGED missions
       ELSE /\ Len(missions[r][selected_mission[r]].steps) < MaxMissionSteps
            /\ missions' = [missions EXCEPT
                   ![r] = AppendStep(@, selected_mission[r], [T |-> 111, cmd |-> delay])]
            /\ Done(r)
    /\ UNCHANGED <<selected_mission, poseVars, runVars, jogVars, listenerVars, inits_left,
                   mission_files, dragging_start_index, last_move, schedVars,
                   classifyVars, timingVars, linkVars, notifyVars, sendVars, stepVars>>

SaveMission(r, path) ==
    /\ GuiIdle
    /\ IF selected_mission[r] = NoMission
       THEN /\ ShowError(r, "No mission selected")
            /\ UNCHANGED mission_files
       ELSE /\ mission_files' =
                   (path :> SavedLines(missions[r][selected_mission[r]])) @@ mission_files
            /\ Done(r)
    /\ UNCHANGED <<dragging_start_index, last_move, poseVars, missionVars, runVars,
                   jogVars, listenerVars, inits_left, schedVars, classifyVars,
                   timingVars, linkVars, notifyVars, sendVars, stepVars>>

\* update_mission_steps_viewer raises KeyError on a movement row without one of
\* its six fields and on a delay row without "cmd"
ViewerRaises(steps) ==
    \E i \in 1..Len(steps) :
        \/ /\ get_step_type(steps[i]) = "movement"
           /\ ~ HasAll(steps[i], {"x", "y", "z", "t", "spd", "acc"})
        \/ /\ get_step_type(steps[i]) = "delay"
           /\ ~ HasAll(steps[i], {"cmd"})

\* ow is the answer to "Overwrite?", asked when the name exists
LoadMission(r, path, ow) ==
    /\ GuiIdle
    /\ IF path \notin DOMAIN mission_files
       THEN /\ ShowError(r, "Failed to load mission: FileNotFoundError")
            /\ UNCHANGED <<missions, selected_mission>>
       ELSE IF LoadRaises(mission_files[path])
       THEN /\ ShowError(r, "Failed to load mission: JSONDecodeError")
            /\ UNCHANGED <<missions, selected_mission>>
       ELSE LET loaded == LoadedMission(mission_files[path])
            IN  IF loaded.name \in DOMAIN missions[r] /\ ~ ow
                THEN /\ Done(r)
                     /\ UNCHANGED <<missions, selected_mission>>
                ELSE /\ missions' = [missions EXCEPT
                                        ![r] = (loaded.name :> loaded) @@ @]
                     /\ selected_mission' = [selected_mission EXCEPT
                                                ![r] = loaded.name]
                     /\ IF ViewerRaises(loaded.steps)
                        THEN ShowError(r, "Failed to load mission: KeyError")
                        ELSE Done(r)
    /\ UNCHANGED << poseVars, runVars, jogVars, listenerVars, inits_left,
                   mission_files, dragging_start_index, last_move, schedVars,
                   classifyVars, timingVars, linkVars, notifyVars, sendVars, stepVars>>

-----------------------------------------------------------------------------
(* insert_step, duplicate_step, update_step, edit_step: the handlers that    *)
(* work on the selected row of the step list                                 *)

\* steps[index] = stp
ReplaceAt(steps, index, stp) == [steps EXCEPT ![index + 1] = stp]

InsertStep(r, row) ==
    /\ GuiIdle
    /\ row \in (0..(TreeRows(r) - 1)) \cup {NoIndex}
    /\ IF row = NoIndex
       THEN /\ ShowError(r, "No step selected")
            /\ UNCHANGED missions
       ELSE /\ Len(missions[r][selected_mission[r]].steps) < MaxMissionSteps
            /\ missions' = [missions EXCEPT ![r][selected_mission[r]].steps =
                               Insert(@, row + 1, MoveCmd(current_position[r]))]
            /\ Done(r)
    /\ UNCHANGED <<selected_mission, poseVars, runVars, jogVars, listenerVars,
                   inits_left, mission_files, dragging_start_index, last_move,
                   schedVars, classifyVars, timingVars, linkVars, notifyVars, sendVars, stepVars>>

DuplicateStep(r, row) ==
    /\ GuiIdle
    /\ row \in (0..(TreeRows(r) - 1)) \cup {NoIndex}
    /\ IF row = NoIndex
       THEN /\ ShowError(r, "No step selected")
            /\ UNCHANGED missions
       ELSE /\ Len(missions[r][selected_mission[r]].steps) < MaxMissionSteps
            /\ missions' = [missions EXCEPT ![r][selected_mission[r]].steps =
                               Insert(@, row + 1, @[row + 1])]
            /\ Done(r)
    /\ UNCHANGED <<selected_mission, poseVars, runVars, jogVars, listenerVars,
                   inits_left, mission_files, dragging_start_index, last_move,
                   schedVars, classifyVars, timingVars, linkVars, notifyVars, sendVars, stepVars>>

UpdateStep(r, row) ==
    /\ GuiIdle
    /\ row \in (0..(TreeRows(r) - 1)) \cup {NoIndex}
    /\ IF row = NoIndex
       THEN /\ ShowError(r, "No step selected")
            /\ UNCHANGED missions
       ELSE IF get_step_type(missions[r][selected_mission[r]].steps[row + 1]) # "movement"
       THEN /\ ShowError(r, "Selected step is not a position step.")
            /\ UNCHANGED missions
       ELSE /\ missions' = [missions EXCEPT ![r][selected_mission[r]].steps =
                               ReplaceAt(@, row, MoveCmd(current_position[r]))]
            /\ Done(r)
    /\ UNCHANGED <<selected_mission, poseVars, runVars, jogVars, listenerVars,
                   inits_left, mission_files, dragging_start_index, last_move,
                   schedVars, classifyVars, timingVars, linkVars, notifyVars, sendVars, stepVars>>

\* spd and acc are the numbers typed in the dialogs, 0 also standing for a
\* dialog that was cancelled; the dialogs of x, y, z, t are left at the values
\* they propose
EditStep(r, row, spd, acc) ==
    /\ GuiIdle
    /\ row \in (0..(TreeRows(r) - 1)) \cup {NoIndex}
    /\ IF row = NoIndex
       THEN /\ ShowError(r, "No step selected")
            /\ UNCHANGED missions
       ELSE IF spd <= 0
       THEN /\ ShowError(r, "Speed must be a positive number.")
            /\ UNCHANGED missions
       ELSE IF acc <= 0
       THEN /\ ShowError(r, "Acceleration must be a positive number.")
            /\ UNCHANGED missions
       ELSE LET step == missions[r][selected_mission[r]].steps[row + 1]
                pos == current_position[r]
                new_step == [T |-> 104,
                             x |-> Get(step, "x", pos.x), y |-> Get(step, "y", pos.y),
                             z |-> Get(step, "z", pos.z), t |-> Get(step, "t", pos.t),
                             spd |-> spd, acc |-> acc]
            IN  /\ missions' = [missions EXCEPT ![r][selected_mission[r]].steps =
                                   ReplaceAt(@, row, new_step)]
                /\ Done(r)
    /\ UNCHANGED <<selected_mission, poseVars, runVars, jogVars, listenerVars,
                   inits_left, mission_files, dragging_start_index, last_move,
                   schedVars, classifyVars, timingVars, linkVars, notifyVars, sendVars, stepVars>>

\* the numbers typed: the proposed ones, zero, a negative speed
EditSpeeds == {-25, 0, default_spd}
EditAccs == {0, default_acc}

-----------------------------------------------------------------------------
(* SpecMission: the missions of one robot are created, filled, saved and     *)
(* loaded; one mission file was written outside the program                  *)

MissionNames == {"m1", "m2"}
MissionPaths == {"pick.mission", "out.mission"}

OtherStep == [T |-> 105]

PickFile ==
    <<Line(<<<<"name", "m2">>, <<"intro", "Pick">>>>), Dumps(MoveA), Dumps(OtherStep)>>

BrokenFile == <<Line(<<<<"name", "m2">>>>), BadLine>>

\* a file whose movement has a negative speed and whose delay is negative
SlowFile ==
    <<Line(<<<<"name", "m2">>>>), Dumps([MoveA EXCEPT !.spd = -25]),
      Dumps([T |-> 111, cmd |-> -1])>>

InitMission ==
    /\ FrameInit
    /\ missions = [r \in Robots |-> <<>>]
    /\ selected_mission = [r \in Robots |-> NoMission]
    /\ mission_files \in {"pick.mission" :> PickFile, "pick.mission" :> BrokenFile,
                          "pick.mission" :> SlowFile}
    /\ dragging_start_index = [r \in Robots |-> NoIndex]
    /\ last_move = [r \in Robots |-> NoMove]
    /\ last_error = [r \in Robots |-> ""]
    /\ SchedIdle /\ ClassifyIdle /\ TimingIdle /\ LinkIdle
    /\ NotifyIdle /\ SendIdle /\ StepIdle

NextMission ==
    \/ \E name \in MissionNames : CreateMission(EditRobot, name)
    \/ AddStep(EditRobot)
    \/ \E delay \in DelayInputs : AddDelay(EditRobot, delay)
    \/ SaveMission(EditRobot, "out.mission")
    \/ \E path \in MissionPaths, ow \in BOOLEAN : LoadMission(EditRobot, path, ow)
    \/ \E row \in (0..(MaxMissionSteps - 1)) \cup {NoIndex},
          spd \in EditSpeeds, acc \in EditAccs : EditStep(EditRobot, row, spd, acc)

SpecMission == InitMission /\ [][NextMission]_vars

\* C10: loading the file that save_mission wrote for a mission gives a mission
\* with the same name and intro and the same steps in the same order.
C10_SaveLoadRoundTrip ==
    [][\A r \in Robots, path \in MissionPaths :
          (SaveMission(r, path) /\ selected_mission[r] # NoMission) =>
              /\ ~ LoadRaises(mission_files'[path])
              /\ LoadedMission(mission_files'[path]) = missions[r][selected_mission[r]]]_vars

-----------------------------------------------------------------------------
(* the settle delay on its own *)

\* one movement step executed from the pose pos, up to time.sleep(tc)
ExecuteStepTiming(pos, step) ==
    /\ tc_pose' = pos
    /\ tc_step' = step
    /\ tc_result' = SettleDelay(pos, step)
    /\ UNCHANGED <<poseVars, missionVars, runVars, jogVars, listenerVars,
                   inits_left, editVars, schedVars, classifyVars, linkVars, notifyVars, sendVars, stepVars>>

-----------------------------------------------------------------------------
(* SpecTiming: movement steps executed from several poses.  The speeds are   *)
(* those a mission can hold: the default, speeds typed into edit_step, and   *)
(* any number written in a mission file, which load_mission stores as read.  *)

TimingPoses == {[x |-> x, y |-> 0, z |-> z, t |-> t] :
                    x \in {0, 235}, z \in {0, 234}, t \in {0, 314}}
TimingSpeeds == {-25, 0, 5, 25, 50}
TimingMoves ==
    {[T |-> 104, x |-> x, y |-> 0, z |-> 0, t |-> t, spd |-> spd, acc |-> default_acc] :
        x \in {0, 100, 400}, t \in {0, 157}, spd \in TimingSpeeds}
    \cup {[T |-> 104, x |-> x, y |-> 0, z |-> 0, t |-> 0] : x \in {0, 100, 400}}

InitTiming ==
    /\ EngineInit(<<MoveA>>, {"m1"})
    /\ EditIdle /\ SchedIdle /\ ClassifyIdle /\ LinkIdle
    /\ NotifyIdle /\ SendIdle /\ StepIdle
    /\ tc_pose \in TimingPoses
    /\ tc_step \in TimingMoves
    /\ tc_result = NoTc

NextTiming == \E pos \in TimingPoses, step \in TimingMoves : ExecuteStepTiming(pos, step)

SpecTiming == InitTiming /\ [][NextTiming]_vars

\* C11: the settle delay computed for a movement step, from whatever pose, is a
\* number between base_delay and max_delay, both included.
C11_SettleDelayBounded ==
    tc_result # NoTc =>
        /\ tc_result.kind = "tc"
        /\ RatLeq(Ratio(base_delay, 1), tc_result.tc)
        /\ RatLeq(tc_result.tc, Ratio(max_delay, 1))

SpdOf(step) == Get(step, "spd", default_spd)

\* C12: of two settle delays computed one after the other, the one of the larger
\* maximal axis distance is not the smaller when the speeds are equal, the one of
\* the larger speed is not the larger when the distances are equal, and two that
\* differ in the t of the pose and of the step only are equal.
C12_SettleDelayMonotone ==
    [][(tc_result # NoTc /\ tc_result.kind = "tc" /\ tc_result'.kind = "tc") =>
          LET mx == MaxAxisDelta(tc_pose, tc_step)
              mx2 == MaxAxisDelta(tc_pose', tc_step')
          IN  /\ (SpdOf(tc_step') = SpdOf(tc_step) /\ mx <= mx2)
                    => RatLeq(tc_result.tc, tc_result'.tc)
              /\ (mx2 = mx /\ SpdOf(tc_step) <= SpdOf(tc_step'))
                    => RatLeq(tc_result'.tc, tc_result.tc)
              /\ ([tc_pose' EXCEPT !.t = 0] = [tc_pose EXCEPT !.t = 0]
                  /\ [tc_step' EXCEPT !["t"] = 0] = [tc_step EXCEPT !["t"] = 0])
                    => RatEq(tc_result'.tc, tc_result.tc)]_vars

-----------------------------------------------------------------------------
(* delete_step: the step of the selected row leaves the selected mission     *)

\* delete_step that takes "no row selected" for the first row
DeleteStepAny(r, row) ==
    /\ GuiIdle
    /\ row \in (0..(TreeRows(r) - 1)) \cup {NoIndex}
    /\ TreeRows(r) > 0
    /\ missions' = [missions EXCEPT ![r][selected_mission[r]].steps =
                       Pop(@, IF row = NoIndex THEN 0 ELSE row)]
    /\ Done(r)
    /\ UNCHANGED <<selected_mission, poseVars, runVars, jogVars, listenerVars,
                   inits_left, mission_files, dragging_start_index, last_move,
                   schedVars, classifyVars, timingVars, linkVars, notifyVars, sendVars, stepVars>>

\* row is the index of the selected row of the step list, NoIndex when none
DeleteStep(r, row) ==
    /\ GuiIdle
    /\ row \in (0..(TreeRows(r) - 1)) \cup {NoIndex}
    /\ IF row = NoIndex
       THEN /\ ShowError(r, "No step selected")
            /\ UNCHANGED missions
       ELSE /\ missions' = [missions EXCEPT ![r][selected_mission[r]].steps = Pop(@, row)]
            /\ Done(r)
    /\ UNCHANGED <<selected_mission, poseVars, runVars, jogVars, listenerVars, inits_left,
                   mission_files, dragging_start_index, last_move, schedVars,
                   classifyVars, timingVars, linkVars, notifyVars, sendVars, stepVars>>

-----------------------------------------------------------------------------
(* SpecRunEdit: one run at a time of a mission of up to MaxMissionSteps      *)
(* steps, whose steps the operator adds and deletes meanwhile                *)

InitRunEdit ==
    /\ FrameInit
    /\ \E steps \in StepLists(MaxMissionSteps) :
           missions = [r \in Robots |->
                          "m1" :> Mission("m1", "Mission",
                                          IF r = EditRobot THEN steps ELSE <<>>)]
    /\ selected_mission = [r \in Robots |-> "m1"]
    /\ EditIdle /\ SchedIdle /\ ClassifyIdle /\ TimingIdle /\ LinkIdle
    /\ NotifyIdle /\ SendIdle /\ StepIdle

NextRunEdit ==
    \/ \E times \in 1..MaxTimes :
           /\ ActiveRuns(EditRobot) = {}
           /\ PlayMissionSpecific(EditRobot, times)
    \/ RunThread(EditRobot)
    \/ AddStep(EditRobot)
    \/ \E row \in (0..(MaxMissionSteps - 1)) \cup {NoIndex} : DeleteStep(EditRobot, row)

SpecRunEdit == InitRunEdit /\ [][NextRunEdit]_vars

\* C13: a run that reports Completed has emitted 100 as its last progress value,
\* has reported Completed once, and has executed at least the len(steps) * times
\* steps counted at its start; so has a run of a mission without steps.
C13_CompletionReport ==
    \A k \in 1..Len(runs[EditRobot]) :
        LET run == runs[EditRobot][k]
        IN  /\ run.completed <= 1
            /\ run.outcome = "completed" =>
                  /\ run.progress = Ratio(100, 1)
                  /\ run.completed = 1
                  /\ run.executed >= run.total

-----------------------------------------------------------------------------
(* The serial link: lines that are no frame, the end of serial_listener,     *)
(* close_connection, and a port whose device went away                       *)

MaxLinkFrames == 2      \* inbound lines per robot
MaxCloses == 2          \* calls of close_connection per robot

\* inbound lines that are no JSON object, by what json.loads makes of them
InvalidLine == [json |-> "invalid"]
NumberLine == [json |-> "number"]
ListLine == [json |-> "list"]
MalformedLines == {InvalidLine, NumberLine, ListLine}

\* json.loads(line) raises JSONDecodeError
JsonLoadsRaises(line) == line.json = "invalid"

NeverStarted == [pc |-> "none", data |-> NoData]
Exited == [pc |-> "exited", data |-> NoData]
ListenerAlive(r) == listener[r].pc \notin {"none", "exited"}

\* a line that is no JSON object is read: "except json.JSONDecodeError" logs a
\* warning and the loop goes on; of any other value data.get raises
\* AttributeError in handle_serial_data, and "except Exception" breaks the loop
ListenerMalformed(r, line) ==
    /\ listener[r].pc = "read"
    /\ ser[r] = "open"
    /\ frames_left[r] > 0
    /\ frames_left' = [frames_left EXCEPT ![r] = @ - 1]
    /\ IF JsonLoadsRaises(line)
       THEN UNCHANGED listener
       ELSE listener' = [listener EXCEPT ![r] = Exited]
    /\ UNCHANGED <<poseVars, missionVars, runVars, jogVars, inits_left, editVars,
                   schedVars, classifyVars, timingVars, linkVars, notifyVars, sendVars, stepVars>>

\* "while not self.serial_listener_stop_event.is_set()" ends the loop, and so
\* does the SerialException of readline on a port whose device went away
ListenerExit(r) ==
    /\ listener[r].pc = "read"
    /\ serial_listener_stop_event[r] \/ ser[r] = "broken"
    /\ listener' = [listener EXCEPT ![r] = Exited]
    /\ UNCHANGED <<poseVars, missionVars, runVars, jogVars, frames_left,
                   inits_left, editVars, schedVars, classifyVars, timingVars,
                   linkVars, notifyVars, sendVars, stepVars>>

\* the device is unplugged: the port stays open, reads and writes raise
Unplug(r) ==
    /\ ser[r] = "open"
    /\ ser' = [ser EXCEPT ![r] = "broken"]
    /\ UNCHANGED <<poseVars, missionVars, runVars, jogVars, listenerVars,
                   inits_left, editVars, schedVars, classifyVars, timingVars,
                   notifyVars, sendVars, stepVars,
                   serial_listener_stop_event, closing>>

\* close_connection with the port closed before the listener is told to stop
CloseSignalReleasing(r) ==
    /\ GuiIdle
    /\ closing[r].pc = "idle"
    /\ closing[r].calls < MaxCloses
    /\ ser' = [ser EXCEPT ![r] = IF @ = "none" THEN @ ELSE "closed"]
    /\ closing' = [closing EXCEPT ![r] = [pc |-> "join", calls |-> @.calls + 1]]
    /\ UNCHANGED <<poseVars, missionVars, runVars, jogVars, listenerVars,
                   inits_left, editVars, schedVars, classifyVars, timingVars,
                   notifyVars, sendVars, stepVars,
                   serial_listener_stop_event>>

\* close_connection: self.serial_listener_stop_event.set(); the join is entered
\* when the listener thread exists and is alive
CloseSignal(r) ==
    /\ GuiIdle
    /\ \A q \in Robots : closing[q].pc = "idle"
    /\ closing[r].calls < MaxCloses
    /\ serial_listener_stop_event' = [serial_listener_stop_event EXCEPT ![r] = TRUE]
    /\ closing' = [closing EXCEPT
                      ![r] = [pc |-> IF ListenerAlive(r) THEN "join" ELSE "stopjog",
                              calls |-> @.calls + 1]]
    /\ UNCHANGED <<poseVars, missionVars, runVars, jogVars, listenerVars,
                   inits_left, editVars, schedVars, classifyVars, timingVars,
                   notifyVars, sendVars, stepVars, ser>>

\* self.serial_listener_thread.join(timeout=2) returns: the thread has exited,
\* or the two seconds are over
CloseJoined(r) ==
    /\ closing[r].pc = "join"
    /\ closing' = [closing EXCEPT ![r].pc = "stopjog"]
    /\ UNCHANGED <<poseVars, missionVars, runVars, jogVars, listenerVars,
                   inits_left, editVars, schedVars, classifyVars, timingVars,
                   notifyVars, sendVars, stepVars,
                   ser, serial_listener_stop_event>>

\* self.stop_continuous_move(): a jog thread is told to stop and joined
CloseStopJog(r) ==
    /\ closing[r].pc = "stopjog"
    /\ IF JogAlive(r)
       THEN /\ moving_stop_event' = [moving_stop_event EXCEPT ![r] = TRUE]
            /\ UNCHANGED <<moving_thread, closing>>
       ELSE /\ moving_thread' = [moving_thread EXCEPT ![r] = NoThread]
            /\ closing' = [closing EXCEPT ![r].pc = "release"]
            /\ UNCHANGED moving_stop_event
    /\ UNCHANGED <<poseVars, missionVars, runVars, gui_pc, jog_ticks, listenerVars,
                   inits_left, editVars, schedVars, classifyVars, timingVars,
                   notifyVars, sendVars, stepVars,
                   ser, serial_listener_stop_event>>

\* "if self.ser and self.ser.is_open: self.ser.close()"; whether close() of a
\* port whose device went away leaves it closed is up to the driver
CloseRelease(r) ==
    /\ closing[r].pc = "release"
    /\ \E after \in (IF ser[r] = "open" THEN {"closed"}
                     ELSE IF ser[r] = "broken" THEN {"closed", "broken"}
                     ELSE {ser[r]}) :
           ser' = [ser EXCEPT ![r] = after]
    /\ closing' = [closing EXCEPT ![r].pc = "idle"]
    /\ UNCHANGED <<poseVars, missionVars, runVars, jogVars, listenerVars,
                   inits_left, editVars, schedVars, classifyVars, timingVars,
                   notifyVars, sendVars, stepVars,
                   serial_listener_stop_event>>

CloseConnection(r) ==
    \/ CloseSignal(r)
    \/ CloseJoined(r)
    \/ CloseStopJog(r)
    \/ CloseRelease(r)

-----------------------------------------------------------------------------
(* SpecLink: one robot whose port was opened or not, its listener, a mission *)
(* run, close_connection, and the device unplugged                           *)

InitLink ==
    /\ WorkersInit
    /\ frames_left = [r \in Robots |-> MaxLinkFrames]
    /\ inits_left = [r \in Robots |-> MaxInits]
    /\ missions = [r \in Robots |-> ("m1" :> Mission("m1", "Mission", <<MoveA, SuctionOn>>))]
    /\ selected_mission = [r \in Robots |-> "m1"]
    /\ EditIdle /\ SchedIdle /\ ClassifyIdle /\ TimingIdle
    /\ ser \in {[r \in Robots |-> IF r = PoseRobot THEN port ELSE "open"] :
                    port \in {"none", "open"}}
    /\ listener = [r \in Robots |-> IF ser[r] = "none" THEN NeverStarted ELSE ListenerIdle]
    /\ serial_listener_stop_event = [r \in Robots |-> FALSE]
    /\ closing = [r \in Robots |-> NotClosing]
    /\ NotifyIdle /\ SendIdle /\ StepIdle

NextLink ==
    \/ /\ Len(runs[PoseRobot]) < MaxPoseRuns
       /\ closing[PoseRobot].pc = "idle"
       /\ PlayMissionSpecific(PoseRobot, 1)
    \/ RunThread(PoseRobot)
    \/ SerialListener(PoseRobot)
    \/ \E line \in MalformedLines : ListenerMalformed(PoseRobot, line)
    \/ ListenerExit(PoseRobot)
    \/ CloseConnection(PoseRobot)
    \/ Unplug(PoseRobot)

SpecLink == InitLink /\ [][NextLink]_vars

\* C14: a run one of whose frames could not be written (port not open, or the
\* write raised) does not report Completed.
C14_TransmitFailureAborts ==
    \A k \in 1..Len(runs[PoseRobot]) :
        runs[PoseRobot][k].tx_failed => runs[PoseRobot][k].outcome # "completed"

\* C15: reading a line that is no JSON object leaves the pose as it is and the
\* listener reading; the listener ends only on a stop request or an I/O failure.
C15_MalformedLineDropped ==
    [][/\ \A line \in MalformedLines :
              ListenerMalformed(PoseRobot, line) =>
                  /\ current_position' = current_position
                  /\ listener'[PoseRobot].pc = "read"
       /\ (listener[PoseRobot].pc # "exited" /\ listener'[PoseRobot].pc = "exited")
              => (serial_listener_stop_event[PoseRobot] \/ ser[PoseRobot] = "broken")]_vars

-----------------------------------------------------------------------------
(* SpecEdit: the step list of one robot under every handler that changes it, *)
(* from a frame without missions or with one mission of a few steps          *)

InitEdit ==
    /\ FrameInit
    /\ \E steps \in StepLists(MaxMissionSteps), made \in BOOLEAN :
           /\ missions = [r \in Robots |->
                             IF r = EditRobot /\ made
                             THEN "m1" :> Mission("m1", "Mission", steps)
                             ELSE <<>>]
           /\ ~ made => steps = <<>>
           /\ selected_mission = [r \in Robots |->
                                     IF r = EditRobot /\ made THEN "m1" ELSE NoMission]
    /\ EditIdle /\ SchedIdle /\ ClassifyIdle /\ TimingIdle /\ LinkIdle
    /\ NotifyIdle /\ SendIdle /\ StepIdle

EditRows == (0..(MaxMissionSteps - 1)) \cup {NoIndex}

NextEdit ==
    \/ CreateMission(EditRobot, "m1")
    \/ AddStep(EditRobot)
    \/ \E delay \in DelayInputs : AddDelay(EditRobot, delay)
    \/ \E row \in EditRows : InsertStep(EditRobot, row)
    \/ \E row \in EditRows : DeleteStep(EditRobot, row)
    \/ \E row \in EditRows : DuplicateStep(EditRobot, row)
    \/ \E row \in EditRows : UpdateStep(EditRobot, row)
    \/ \E row \in EditRows, spd \in EditSpeeds, acc \in EditAccs :
           EditStep(EditRobot, row, spd, acc)
    \/ \E row \in EditRows : OnTreeviewClick(EditRobot, row)
    \/ \E row \in EditRows : OnTreeviewDrop(EditRobot, row)

SpecEdit == InitEdit /\ [][NextEdit]_vars

Rejected(r) == missions' = missions /\ last_error'[r] # ""

\* C17: creating a mission under a name that exists is refused with an error and
\* changes neither the missions (names, intros, steps) nor the selected mission.
C17_DuplicateCreateRejected ==
    [][\A name \in MissionNames :
          (name \in DOMAIN missions[EditRobot] /\ CreateMission(EditRobot, name)) =>
              /\ missions' = missions
              /\ selected_mission' = selected_mission
              /\ last_error'[EditRobot] = "Mission already exists"]_vars

\* a duplicate name was refused while another mission, with steps, was selected
C17_Witness ==
    /\ last_error[EditRobot] = "Mission already exists"
    /\ DOMAIN missions[EditRobot] = MissionNames
    /\ \E name \in MissionNames : Len(missions[EditRobot][name].steps) > 0

StepValid(step) ==
    /\ get_step_type(step) = "movement" =>
          /\ "spd" \in DOMAIN step => step["spd"] > 0
          /\ "acc" \in DOMAIN step => step["acc"] > 0
    /\ get_step_type(step) = "delay" =>
          ("cmd" \in DOMAIN step => step["cmd"] >= 0)

\* C19: every movement step of every mission has spd > 0 and acc > 0 and every
\* delay step a duration >= 0, whatever was created, added, edited and loaded; an
\* edit with a speed or an acceleration <= 0 and a delay < 0 are refused with an
\* error and leave the missions as they are.
C19_StepsValid ==
    /\ [](\A r \in Robots : \A name \in DOMAIN missions[r] :
              \A i \in 1..Len(missions[r][name].steps) :
                  StepValid(missions[r][name].steps[i]))
    /\ [][/\ \A row \in EditRows, spd \in EditSpeeds, acc \in EditAccs :
                 ((spd <= 0 \/ acc <= 0) /\ EditStep(EditRobot, row, spd, acc))
                     => Rejected(EditRobot)
          /\ \A delay \in DelayInputs :
                 (delay < 0 /\ AddDelay(EditRobot, delay)) => Rejected(EditRobot)]_vars

\* C20: a load of a file one of whose lines is no JSON stores no mission, replaces
\* none and leaves the selected mission as it is.
C20_LoadAllOrNothing ==
    [][\A path \in MissionPaths, ow \in BOOLEAN :
          (/\ path \in DOMAIN mission_files
           /\ \E i \in 1..Len(mission_files[path]) : ~ mission_files[path][i].valid
           /\ LoadMission(EditRobot, path, ow))
          => /\ missions' = missions
             /\ selected_mission' = selected_mission
             /\ last_error'[EditRobot] = "Failed to load mission: JSONDecodeError"]_vars

\* the load of the file with a broken step line was refused, with a mission in
\* memory that has steps
C20_Witness ==
    /\ last_error[EditRobot] = "Failed to load mission: JSONDecodeError"
    /\ mission_files["pick.mission"] = BrokenFile
    /\ selected_mission[EditRobot] # NoMission
    /\ Len(missions[EditRobot][selected_mission[EditRobot]].steps) > 0

-----------------------------------------------------------------------------
(* SpecNotify: the notification queue of one robot.  Any thread puts a       *)
(* callback with queue_gui_update; process_gui_queue, run by the GUI thread  *)
(* every 100 ms, calls the callbacks that wait.                              *)

MaxNotes == 3           \* notifications put on a robot's queue

\* what the callbacks put on the queue do when called: update_status_bar,
\* update_progress_bar, show_error's modal dialog, and the lambda made in an
\* except block that reads the block's exception variable after the block
NoteKinds == {"status", "progress", "error", "stale"}

\* the callback raises: the exception variable is unbound once its except block ends
Raises(kind) == kind = "stale"

\* queue_gui_update(func), by any thread
QueueGuiUpdate(r, kind) ==
    /\ emitted[r] < MaxNotes
    /\ emitted' = [emitted EXCEPT ![r] = @ + 1]
    /\ gui_queue' = [gui_queue EXCEPT ![r] = Append(@, [id |-> emitted[r] + 1,
                                                        kind |-> kind])]
    /\ UNCHANGED <<gui_executed, consumer>>
    /\ UNCHANGED <<poseVars, missionVars, runVars, jogVars, listenerVars,
                   inits_left, editVars, schedVars, classifyVars, timingVars,
                   linkVars, sendVars, stepVars>>

\* the 100 ms are over: Tk calls process_gui_queue
ProcessGuiQueue(r) ==
    /\ consumer[r] = "waiting"
    /\ consumer' = [consumer EXCEPT ![r] = "draining"]
    /\ UNCHANGED <<gui_queue, gui_executed, emitted>>
    /\ UNCHANGED <<poseVars, missionVars, runVars, jogVars, listenerVars,
                   inits_left, editVars, schedVars, classifyVars, timingVars,
                   linkVars, sendVars, stepVars>>

\* the newest first
GetNowaitNewest(q) == [func |-> q[Len(q)], rest |-> SubSeq(q, 1, Len(q) - 1)]

\* Queue.get_nowait() of a queue that is not empty
GetNowait(q) == [func |-> Head(q), rest |-> Tail(q)]

\* one turn of "while True: func = get_nowait(); func()".  Empty ends the loop;
\* so does a callback that raises; either way the finally clause schedules the
\* next call.  show_error's dialog keeps the loop inside func() until dismissed.
ConsumerGet(r) ==
    /\ consumer[r] = "draining"
    /\ IF gui_queue[r] = <<>>
       THEN /\ consumer' = [consumer EXCEPT ![r] = "waiting"]
            /\ UNCHANGED <<gui_queue, gui_executed>>
       ELSE LET got == GetNowait(gui_queue[r])
            IN  /\ gui_queue' = [gui_queue EXCEPT ![r] = got.rest]
                /\ gui_executed' = [gui_executed EXCEPT ![r] = Append(@, got.func)]
                /\ consumer' = [consumer EXCEPT ![r] =
                                   IF Raises(got.func.kind) THEN "waiting"
                                   ELSE IF got.func.kind = "error" THEN "modal"
                                   ELSE "draining"]
    /\ UNCHANGED emitted
    /\ UNCHANGED <<poseVars, missionVars, runVars, jogVars, listenerVars,
                   inits_left, editVars, schedVars, classifyVars, timingVars,
                   linkVars, sendVars, stepVars>>

\* the user closes the dialog: messagebox.showerror returns
DismissError(r) ==
    /\ consumer[r] = "modal"
    /\ consumer' = [consumer EXCEPT ![r] = "draining"]
    /\ UNCHANGED <<gui_queue, gui_executed, emitted>>
    /\ UNCHANGED <<poseVars, missionVars, runVars, jogVars, listenerVars,
                   inits_left, editVars, schedVars, classifyVars, timingVars,
                   linkVars, sendVars, stepVars>>

InitNotify ==
    /\ EngineInit(<<MoveA>>, {"m1"})
    /\ EditIdle /\ SchedIdle /\ ClassifyIdle /\ TimingIdle /\ LinkIdle
    /\ NotifyIdle /\ SendIdle /\ StepIdle

NextNotify ==
    \/ \E kind \in NoteKinds : QueueGuiUpdate(PoseRobot, kind)
    \/ ProcessGuiQueue(PoseRobot)
    \/ ConsumerGet(PoseRobot)
    \/ DismissError(PoseRobot)

\* the consumer keeps polling: Tk runs the scheduled call, the loop goes on, and
\* the user closes every dialog
SpecNotify ==
    /\ InitNotify /\ [][NextNotify]_vars
    /\ WF_vars(ProcessGuiQueue(PoseRobot))
    /\ WF_vars(ConsumerGet(PoseRobot))
    /\ WF_vars(DismissError(PoseRobot))

\* the callbacks called so far are the first ones put, in the order they were
\* put, and the queue holds the others, in that order
InOrderOnce(r) ==
    /\ \A j \in 1..Len(gui_executed[r]) : gui_executed[r][j].id = j
    /\ \A j \in 1..Len(gui_queue[r]) : gui_queue[r][j].id = Len(gui_executed[r]) + j
    /\ Len(gui_executed[r]) + Len(gui_queue[r]) = emitted[r]

\* C21: the notifications put on a robot's queue are executed by the one
\* consumer in the order they were put, each exactly once, and every notification
\* put is eventually executed while the consumer keeps polling, also after a
\* callback that raised.
C21_NotificationsDelivered ==
    /\ [](\A r \in Robots : InOrderOnce(r))
    /\ \A r \in Robots, i \in 1..MaxNotes :
           (emitted[r] >= i) ~> (Len(gui_executed[r]) >= i)

\* a callback that raises was called first, and the two put after it were
\* called after it
C21_Witness ==
    /\ Len(gui_executed[PoseRobot]) = 3
    /\ gui_executed[PoseRobot][1].kind = "stale"
    /\ gui_executed[PoseRobot][2].kind = "error"
    /\ gui_executed[PoseRobot][3].kind = "progress"

-----------------------------------------------------------------------------
(* Claims about the monitor threads of the scheduler                         *)

\* the monitor_task thread started for task dict id is still in its loop
LiveMonitor(id) == monitors[id].pc \notin {"none", "done"}

\* the live monitors of the task first added as dict o: that of the dict and
\* those of its saved and loaded copies
MonitorsOf(o) == {m \in TaskIds : task_objs[m].origin = o /\ LiveMonitor(m)}

\* C22: every task of scheduled_tasks has at most one live monitor loop, and
\* load_schedule starts a monitor for exactly the loaded tasks whose status is
\* Pending.
C22_OneMonitorPerTask ==
    /\ [](\A i \in 1..Len(scheduled_tasks) :
             Cardinality(MonitorsOf(task_objs[scheduled_tasks[i]].origin)) <= 1)
    /\ [][(GuiIdle /\ schedule_file # <<>> /\ LoadSchedule) =>
             \A id \in (Len(task_objs) + 1)..Len(task_objs') :
                 LiveMonitor(id)' <=> task_objs'[id].status = "Pending"]_vars

-----------------------------------------------------------------------------
(* SpecSchedFile: a schedule file that save_schedule did not write, loaded   *)
(* with load_schedule; its one task may name a robot the application has not *)

UnknownRobot == "Robot 3"

\* schedule files of one task; origin 0: no dict of this session was saved
ForeignFiles ==
    {<<Task(robot, "a.mission", tod, rec, status, 0)>> :
        robot \in {"Robot 1", UnknownRobot}, tod \in TimesOfDay,
        rec \in Recurrences, status \in {"Pending", "Completed"}}

InitSchedFile ==
    /\ EngineInit(<<MoveA>>, {"m1"})
    /\ EditIdle /\ ClassifyIdle /\ TimingIdle /\ LinkIdle
    /\ NotifyIdle /\ SendIdle /\ StepIdle
    /\ clock = 1
    /\ task_objs = <<>>
    /\ scheduled_tasks = <<>>
    /\ tasks_tree = <<>>
    /\ monitors = <<>>
    /\ schedule_file \in ForeignFiles

NextSchedFile ==
    \/ LoadSchedule
    \/ \E id \in 1..Len(monitors) : MonitorTask(id)
    \/ \E r \in Robots : RunThread(r)
    \/ Tick

SpecSchedFile == InitSchedFile /\ [][NextSchedFile]_vars

\* C23: a task whose robot is neither "Robot 1" nor "Robot 2" and whose trigger
\* time is reached ends with status Unknown Robot and its monitor terminates,
\* whether its mission file can be loaded or not; it never calls
\* play_mission_specific on any robot.
C23_UnknownRobotEnds ==
    /\ [](\A id \in TaskIds :
             task_objs[id].robot \notin Robots => monitors[id].calls = 0)
    /\ [][\A id \in TaskIds :
             ( /\ task_objs[id].robot \notin Robots
               /\ monitors[id].pc = "load"
               /\ monitors'[id] # monitors[id]
               /\ OwnRowStatus(id) # NoRow )
             => /\ monitors'[id].pc = "done"
                /\ monitors'[id].exit = "unknown_robot"
                /\ OwnRowStatus(id)' = "Unknown Robot"]_vars

\* the same with a mission file that can be loaded
UnknownRobotLoadable ==
    [][\A id \in TaskIds :
          ( /\ task_objs[id].robot \notin Robots
            /\ monitors[id].pc = "load"
            /\ monitors'[id] # monitors[id]
            /\ OwnRowStatus(id) # NoRow
            /\ monitors'[id].exit # "load_failed" )
          => /\ monitors'[id].pc = "done"
             /\ monitors'[id].exit = "unknown_robot"
             /\ OwnRowStatus(id)' = "Unknown Robot"]_vars

-----------------------------------------------------------------------------
(* play_step: the selected step is executed once by a thread of its own      *)

MaxStepThreads == 1     \* run_step threads started per robot

StepTid(i) == 200 + i

\* row is the index of the selected row of the step list, NoIndex when none
PlayStep(r, row) ==
    /\ GuiIdle
    /\ Len(step_threads[r]) < MaxStepThreads
    /\ row \in (0..(TreeRows(r) - 1)) \cup {NoIndex}
    /\ IF row = NoIndex
       THEN /\ ShowError(r, "No step selected")
            /\ UNCHANGED step_threads
       ELSE /\ step_threads' = [step_threads EXCEPT ![r] = Append(@,
                   [pc |-> "start", outcome |-> "running",
                    step |-> missions[r][selected_mission[r]].steps[row + 1]])]
            /\ UNCHANGED last_error
    /\ UNCHANGED <<poseVars, missionVars, runVars, jogVars, listenerVars,
                   inits_left, mission_files, dragging_start_index, last_move,
                   schedVars, classifyVars, timingVars, linkVars, notifyVars,
                   sendVars>>

SetStepThread(r, i, th) == step_threads' = [step_threads EXCEPT ![r][i] = th]

\* run_step: execute_step(step) up to its first wait
StepBegin(r, i) ==
    /\ step_threads[r][i].pc = "start"
    /\ LET th == step_threads[r][i]
           to == Dispatch(current_position[r], th.step)
       IN  /\ IF to = "raise"
              THEN SetStepThread(r, i, [th EXCEPT !.pc = "done", !.outcome = "failed"])
              ELSE SetStepThread(r, i, [th EXCEPT !.pc = to])
           /\ IF Sends(current_position[r], th.step)
              THEN SendCommandInThread(r, StepTid(i), th.step)
              ELSE UNCHANGED sendVars
    /\ UNCHANGED <<poseVars, missionVars, runVars, jogVars, listenerVars,
                   inits_left, editVars, schedVars, classifyVars, timingVars,
                   linkVars, notifyVars>>

\* time.sleep(tc) is over: with self.movement_lock
StepAcquire(r, i) ==
    /\ step_threads[r][i].pc = "sleep"
    /\ movement_lock[r] = Free
    /\ movement_lock' = [movement_lock EXCEPT ![r] = StepTid(i)]
    /\ SetStepThread(r, i, [step_threads[r][i] EXCEPT !.pc = "locked"])
    /\ UNCHANGED <<current_position, pose_writer, missionVars, runVars, jogVars,
                   listenerVars, inits_left, editVars, schedVars, classifyVars,
                   timingVars, linkVars, notifyVars, sendVars>>

StepCommit(r, i) ==
    /\ step_threads[r][i].pc = "locked"
    /\ LET th == step_threads[r][i]
       IN  IF HasAll(th.step, {"x", "y", "z", "t"})
           THEN /\ current_position' =
                       [current_position EXCEPT ![r] = CommitPose(@, th.step)]
                /\ pose_writer' = [pose_writer EXCEPT ![r] = StepTid(i)]
                /\ SetStepThread(r, i, [th EXCEPT !.pc = "unlock"])
                /\ UNCHANGED movement_lock
           ELSE \* KeyError inside the with block
                /\ movement_lock' = [movement_lock EXCEPT ![r] = Free]
                /\ SetStepThread(r, i, [th EXCEPT !.pc = "done", !.outcome = "failed"])
                /\ UNCHANGED <<current_position, pose_writer>>
    /\ UNCHANGED <<missionVars, runVars, jogVars, listenerVars, inits_left,
                   editVars, schedVars, classifyVars, timingVars, linkVars,
                   notifyVars, sendVars>>

\* leaving the with block: execute_step returns
StepRelease(r, i) ==
    /\ step_threads[r][i].pc = "unlock"
    /\ movement_lock' = [movement_lock EXCEPT ![r] = Free]
    /\ SetStepThread(r, i, [step_threads[r][i] EXCEPT !.pc = "done",
                                                      !.outcome = "played"])
    /\ UNCHANGED <<current_position, pose_writer, missionVars, runVars, jogVars,
                   listenerVars, inits_left, editVars, schedVars, classifyVars,
                   timingVars, linkVars, notifyVars, sendVars>>

\* the delay's sleep is over, or the frame was handed to the sender, or the
\* step type is unknown: execute_step returns
StepDone(r, i) ==
    /\ step_threads[r][i].pc \in {"delay", "post"}
    /\ SetStepThread(r, i, [step_threads[r][i] EXCEPT !.pc = "done",
                                                      !.outcome = "played"])
    /\ UNCHANGED <<poseVars, missionVars, runVars, jogVars, listenerVars,
                   inits_left, editVars, schedVars, classifyVars, timingVars,
                   linkVars, notifyVars, sendVars>>

StepThread(r) ==
    \E i \in 1..Len(step_threads[r]) :
        \/ StepBegin(r, i)
        \/ StepAcquire(r, i)
        \/ StepCommit(r, i)
        \/ StepRelease(r, i)
        \/ StepDone(r, i)

-----------------------------------------------------------------------------
(* The threads of send_command_in_thread                                     *)

\* json.dumps(command) + "\n", encoded
Encode(command) == Dumps(command)

\* send(): with the port open the line is written, else the error is reported
SenderRun(r, i) ==
    /\ send_threads[r][i].pc = "started"
    /\ IF Written(r)
       THEN /\ wire' = [wire EXCEPT ![r] = Append(@, Encode(send_threads[r][i].command))]
            /\ send_threads' = [send_threads EXCEPT ![r][i].pc = "written"]
       ELSE /\ send_threads' = [send_threads EXCEPT ![r][i].pc = "failed"]
            /\ UNCHANGED wire
    /\ UNCHANGED <<followed, poseVars, missionVars, runVars, jogVars,
                   listenerVars, inits_left, editVars, schedVars, classifyVars,
                   timingVars, linkVars, notifyVars, stepVars>>

SendThread(r) == \E i \in 1..Len(send_threads[r]) : SenderRun(r, i)

-----------------------------------------------------------------------------
(* SpecWire: one robot whose send() threads are followed; a mission of a     *)
(* movement, a delay, an LED step and a step of an unknown code is run, its  *)
(* steps are played one by one, and the device reports its pose              *)

LedOn == [T |-> 114, led |-> 255]

WireSteps == <<MoveA, Delay500, LedOn, OtherStep>>

\* __init__ has started the thread that sends move_to_current_position's frame
InitWire ==
    /\ EngineInit(WireSteps, {"m1"})
    /\ EditIdle /\ SchedIdle /\ ClassifyIdle /\ TimingIdle /\ LinkIdle
    /\ NotifyIdle /\ StepIdle
    /\ followed = {PoseRobot}
    /\ send_threads = [r \in Robots |->
                          IF r \in followed
                          THEN <<SendThreadOf(GuiTid, MoveCmd(startup_position),
                                               "started")>>
                          ELSE <<>>]
    /\ wire = [r \in Robots |-> <<>>]

NextWire ==
    \/ Len(runs[PoseRobot]) < MaxPoseRuns /\ PlayMissionSpecific(PoseRobot, 1)
    \/ RunThread(PoseRobot)
    \/ \E row \in (0..(Len(WireSteps) - 1)) \cup {NoIndex} : PlayStep(PoseRobot, row)
    \/ StepThread(PoseRobot)
    \/ SendThread(PoseRobot)
    \/ SerialListener(PoseRobot)

SpecWire == InitWire /\ [][NextWire]_vars

AtTarget(pos, step) ==
    /\ pos.x = step["x"] /\ pos.y = step["y"]
    /\ pos.z = step["z"] /\ pos.t = step["t"]

\* what a thread that executes a movement step does in one step of its own, w
\* being the thread before and v after, tid its thread id
MovementInOrder(r, w, v, tid) ==
    /\ (w.pc \in {"iter", "start"} /\ v.pc = "sleep") =>
           /\ send_threads'[r] = Append(send_threads[r],
                                        SendThreadOf(tid, v.step, "started"))
           /\ current_position'[r] = current_position[r]
    /\ (w.pc # "locked" /\ v.pc = "locked") =>
           /\ w.pc = "sleep"
           /\ current_position'[r] = current_position[r]
    /\ (w.pc = "locked" /\ v.pc = "unlock") =>
           /\ AtTarget(current_position'[r], w.step)
           /\ pose_writer'[r] = tid
    /\ (v # w /\ current_position'[r] # current_position[r]) => w.pc = "locked"

\* C24: a movement step is handed to the sender first, then the thread waits
\* tc, then it commits the pose: no thread executing a movement changes the
\* pose before its wait is over, and after its commit x, y, z and t are the
\* step's.
C24_SendWaitCommit ==
    [][\A r \in followed :
          /\ \A k \in 1..Len(runs[r]) :
                 MovementInOrder(r, runs[r][k], runs'[r][k], RunTid(k))
          /\ \A i \in 1..Len(step_threads[r]) :
                 MovementInOrder(r, step_threads[r][i], step_threads'[r][i],
                                 StepTid(i))]_vars

\* the run has committed MoveA while the frame it handed over is not written yet
C24_Witness ==
    /\ Len(runs[PoseRobot]) = 1
    /\ runs[PoseRobot][1].pc = "unlock"
    /\ runs[PoseRobot][1].step = MoveA
    /\ AtTarget(current_position[PoseRobot], MoveA)
    /\ \E i \in 1..Len(send_threads[PoseRobot]) :
           send_threads[PoseRobot][i] = SendThreadOf(RunTid(1), MoveA, "started")

\* nothing is handed to the sender or written for robot r, and its pose stays
Quiet(r) ==
    /\ send_threads'[r] = send_threads[r]
    /\ wire'[r] = wire[r]
    /\ current_position'[r] = current_position[r]

\* the step run k of robot r executes next, NoStep when it executes none
StepAhead(r, k) ==
    LET run == runs[r][k]
        lst == missions[r][run.mission].steps
    IN  IF run.pc = "iter" /\ run.idx < Len(lst) /\ ~ mission_execution_stop_event[r]
        THEN lst[run.idx + 1]
        ELSE NoStep

\* C25: executing a Delay step (T = 111), in a mission run or played on its
\* own, hands no frame to the sender, writes none to the port and leaves the
\* pose as it is; no frame of code 111 ever reaches the port.
C25_DelayNeverSent ==
    /\ [](\A r \in followed :
             /\ \A i \in 1..Len(send_threads[r]) : send_threads[r][i].command["T"] # 111
             /\ \A j \in 1..Len(wire[r]) : Loads(wire[r][j])["T"] # 111)
    /\ [][\A r \in followed :
             /\ \A k \in 1..Len(runs[r]) :
                    ( /\ runs'[r][k] # runs[r][k]
                      /\ \/ StepAhead(r, k)["T"] = 111
                         \/ runs[r][k].pc = "delay" )
                    => Quiet(r)
             /\ \A i \in 1..Len(step_threads[r]) :
                    ( /\ step_threads'[r][i] # step_threads[r][i]
                      /\ \/ /\ step_threads[r][i].pc = "start"
                            /\ step_threads[r][i].step["T"] = 111
                         \/ step_threads[r][i].pc = "delay" )
                    => Quiet(r)]_vars

\* the delay was played on its own, and the run is in its delay
C25_Witness ==
    /\ Len(step_threads[PoseRobot]) = 1
    /\ step_threads[PoseRobot][1] =
           [pc |-> "done", outcome |-> "played", step |-> Delay500]
    /\ Len(runs[PoseRobot]) = 1
    /\ runs[PoseRobot][1].pc = "delay"
    /\ runs[PoseRobot][1].step = Delay500

\* handing step stp over is all that thread w of id tid, v after the step, does
\* with it
SentAsIs(r, w, v, tid, stp) ==
    /\ send_threads'[r] = Append(send_threads[r], SendThreadOf(tid, stp, "started"))
    /\ current_position'[r] = current_position[r]
    /\ v.pc = "post"

\* the step thread w is about to execute, NoStep when it executes none
StepAtStart(w) == IF w.pc = "start" THEN w.step ELSE NoStep

\* a thread about to execute a step whose code is in codes hands it over as is
CodesSentAsIs(codes) ==
    \A r \in followed :
        /\ \A k \in 1..Len(runs[r]) :
               (runs'[r][k] # runs[r][k] /\ StepAhead(r, k)["T"] \in codes)
               => SentAsIs(r, runs[r][k], runs'[r][k], RunTid(k), StepAhead(r, k))
        /\ \A i \in 1..Len(step_threads[r]) :
               ( /\ step_threads'[r][i] # step_threads[r][i]
                 /\ StepAtStart(step_threads[r][i])["T"] \in codes )
               => SentAsIs(r, step_threads[r][i], step_threads'[r][i],
                           StepTid(i), step_threads[r][i].step)

\* the codes of the steps of SpecWire that are neither movements nor delays
OtherCodes == {WireSteps[i]["T"] : i \in 1..Len(WireSteps)} \ {104, 111}

\* C26: executing a step that is neither a movement nor a delay, a step of an
\* unrecognized code included, hands the step's frame to the sender unchanged,
\* without a settle wait and without a change of the pose.
C26_OtherStepsSentAsIs == [][CodesSentAsIs(OtherCodes)]_vars

\* the same for the codes execute_step lists: 113, 114, 210, 112
ListedCodesSentAsIs == [][CodesSentAsIs({113, 114, 210, 112})]_vars

-----------------------------------------------------------------------------
(* Claims about the progress of a run                                        *)

\* the step that counts an executed step of run w, v after it, queues the
\* progress executed / total * 100, above what the run queued before
ProgressQueued(w, v) ==
    /\ v.total > 0
    /\ v.progress = Ratio(v.executed * 100, v.total)
    /\ ~ RatLeq(v.progress, w.progress)

\* C27: after its k-th executed step a run queues the progress value
\* k / (len(steps) * repetitions) * 100, one value per executed step, so the
\* values queued grow strictly over the run.
C27_ProgressPerStep ==
    [][\A r \in Robots : \A k \in 1..Len(runs[r]) :
          runs'[r][k].executed = runs[r][k].executed + 1
              => ProgressQueued(runs[r][k], runs'[r][k])]_vars

-----------------------------------------------------------------------------
(* SpecLock: the threads of one robot that take movement_lock or wait: a run *)
(* of a movement and a delay, the jog loop, the listener, and the send()     *)
(* threads that write to the port                                            *)

\* the frame of __init__'s move_to_current_position has been written
InitLock ==
    /\ EngineInit(<<MoveA, Delay500>>, {"m1"})
    /\ EditIdle /\ SchedIdle /\ ClassifyIdle /\ TimingIdle /\ LinkIdle
    /\ NotifyIdle /\ StepIdle
    /\ followed = {PoseRobot}
    /\ send_threads = [r \in Robots |->
                          IF r \in followed
                          THEN <<SendThreadOf(GuiTid, MoveCmd(startup_position),
                                               "written")>>
                          ELSE <<>>]
    /\ wire = [r \in Robots |->
                  IF r \in followed
                  THEN <<Encode(MoveCmd(startup_position))>>
                  ELSE <<>>]

NextLock ==
    \/ Len(runs[PoseRobot]) < MaxPoseRuns /\ PlayMissionSpecific(PoseRobot, 1)
    \/ RunThread(PoseRobot)
    \/ JogController(PoseRobot)
    \/ SerialListener(PoseRobot)
    \/ SendThread(PoseRobot)

SpecLock == InitLock /\ [][NextLock]_vars

\* the thread that holds robot r's lock is inside its with block
HeldInWith(r) ==
    \/ \E k \in 1..Len(runs[r]) :
           movement_lock[r] = RunTid(k) /\ runs[r][k].pc \in {"locked", "unlock"}
    \/ \E i \in 1..Len(step_threads[r]) :
           /\ movement_lock[r] = StepTid(i)
           /\ step_threads[r][i].pc \in {"locked", "unlock"}
    \/ movement_lock[r] = JogTid /\ moving_thread[r].pc \in {"locked", "unlock"}
    \/ movement_lock[r] = ListenerTid /\ listener[r].pc \in Axes \cup {"unlock"}

\* C28: no thread holds a robot's movement_lock while it waits: a thread in
\* its settle sleep, in a delay, in the jog loop's sleep or reading the port
\* does not hold the lock, and whoever holds it is inside its with block (so
\* not a send() thread writing to the port).
C28_NoWaitUnderLock ==
    \A r \in Robots :
        /\ \A k \in 1..Len(runs[r]) :
               runs[r][k].pc \in {"sleep", "delay"} => movement_lock[r] # RunTid(k)
        /\ \A i \in 1..Len(step_threads[r]) :
               step_threads[r][i].pc \in {"sleep", "delay"}
                   => movement_lock[r] # StepTid(i)
        /\ moving_thread[r].pc = "loop" => movement_lock[r] # JogTid
        /\ listener[r].pc = "read" => movement_lock[r] # ListenerTid
        /\ movement_lock[r] # Free => HeldInWith(r)

\* the run commits under the lock while the jog loop sleeps after a tick, the
\* listener waits for the lock and a frame waits to be written
C28_Witness ==
    /\ movement_lock[PoseRobot] = RunTid(1)
    /\ moving_thread[PoseRobot].pc = "loop"
    /\ jog_ticks[PoseRobot] >= 1
    /\ listener[PoseRobot].pc = "acquire"
    /\ \E i \in 1..Len(send_threads[PoseRobot]) :
           send_threads[PoseRobot][i].pc = "started"

-----------------------------------------------------------------------------
(* Claims about the order of the frames on the port                          *)

\* of two send() threads started by the same thread, the later one has not
\* written its frame while the earlier one has still to run
InCallOrder(r) ==
    \A i, j \in 1..Len(send_threads[r]) :
        ( /\ i < j
          /\ send_threads[r][i].by = send_threads[r][j].by
          /\ send_threads[r][j].pc = "written" )
        => send_threads[r][i].pc # "started"

\* C29: the frames a thread hands to send_command_in_thread are written to
\* the port in the order of the calls.
C29_FramesInCallOrder == \A r \in followed : InCallOrder(r)

-----------------------------------------------------------------------------
(* Claims about the status of a task after its mission was triggered         *)

\* run k of robot r went through every step of its mission and ended normally
RanAllSteps(r, k) ==
    /\ runs[r][k].outcome = "completed"
    /\ runs[r][k].executed = runs[r][k].total

\* the monitor of task dict id sets the status Completed in this step
SetsCompleted(id) ==
    /\ monitors[id].pc = "completed"
    /\ monitors'[id].pc = "recur"
    /\ OwnRowStatus(id)' = "Completed"

\* C30: the status of a task becomes Completed only when a run of the task's
\* robot has executed all of its steps; a call that starts no run, or a run
\* that has not finished or has failed, never gives Completed.
C30_CompletedAfterRun ==
    [][\A id \in TaskIds :
          SetsCompleted(id)
              => \E k \in 1..Len(runs[task_objs[id].robot]) :
                     RanAllSteps(task_objs[id].robot, k)]_vars

\* the same, for the robots that have a mission selected only: a call that
\* starts no run is left aside
CompletedAfterStartedRun ==
    [][\A id \in TaskIds :
          ( /\ selected_mission[task_objs[id].robot] # NoMission
            /\ SetsCompleted(id) )
              => \E k \in 1..Len(runs[task_objs[id].robot]) :
                     RanAllSteps(task_objs[id].robot, k)]_vars

\* the same, for the robot without a selected mission only
CompletedWithoutRun ==
    [][\A id \in TaskIds :
          ( /\ selected_mission[task_objs[id].robot] = NoMission
            /\ SetsCompleted(id) )
              => \E k \in 1..Len(runs[task_objs[id].robot]) :
                     RanAllSteps(task_objs[id].robot, k)]_vars

-----------------------------------------------------------------------------
(* SpecSchedMission: the scheduler with the mission file of its tasks on     *)
(* disk.  The file holds the steps of the selected mission m1, or other ones. *)

\* a.mission as save_mission wrote it for m1
SelectedFile == SavedLines(Mission("m1", "Mission", <<MoveA>>))

\* a.mission as save_mission wrote it for another mission
OtherMissionFile == SavedLines(Mission("m2", "Mission", <<MoveB, Delay500>>))

InitSchedMission ==
    /\ EngineInit(<<MoveA>>, {NoMission, "m1"})
    /\ selected_mission["Robot 1"] = "m1"
    /\ selected_mission["Robot 2"] = NoMission
    /\ mission_files \in {"a.mission" :> SelectedFile,
                          "a.mission" :> OtherMissionFile}
    /\ dragging_start_index = [r \in Robots |-> NoIndex]
    /\ last_move = [r \in Robots |-> NoMove]
    /\ last_error = [r \in Robots |-> ""]
    /\ SchedIdle /\ ClassifyIdle /\ TimingIdle /\ LinkIdle
    /\ NotifyIdle /\ SendIdle /\ StepIdle

NextSchedMission ==
    \/ \E robot \in Robots, file \in MissionFilePaths, tod \in TimesOfDay,
          rec \in Recurrences : AddToSchedule(robot, file, tod, rec)
    \/ \E id \in 1..Len(monitors) : MonitorTask(id)
    \/ \E r \in Robots : RunThread(r)
    \/ Tick

SpecSchedMission == InitSchedMission /\ [][NextSchedMission]_vars

\* the steps stored in the mission file of the scheduled tasks
TaskFileSteps == LoadedMission(mission_files["a.mission"]).steps

\* run k of robot r takes its next step from the list in this step
TakesStep(r, k) ==
    /\ k <= Len(runs[r])
    /\ runs[r][k].pc = "iter"
    /\ runs'[r][k].idx = runs[r][k].idx + 1
    /\ runs'[r][k].outcome # "stopped"

\* every step of a triggered run is the step at the same place of the file,
\* and a run that completes has gone through as many steps as the file holds
RunsFileSteps ==
    \A r \in Robots : \A k \in 1..MaxRuns :
        /\ TakesStep(r, k)
             => /\ runs'[r][k].idx <= Len(TaskFileSteps)
                /\ missions[r][runs[r][k].mission].steps[runs'[r][k].idx]
                       = TaskFileSteps[runs'[r][k].idx]
        /\ ( /\ k <= Len(runs[r])
             /\ runs[r][k].outcome = "running"
             /\ runs'[r][k].outcome = "completed" )
             => runs'[r][k].executed = Len(TaskFileSteps)

\* C31: the steps a triggered task runs on its robot are the steps stored in
\* the task's mission file, whichever mission is selected on the robot.
C31_RunsTheFileSteps == [][RunsFileSteps]_vars

\* the same when the file holds the steps of the mission selected on the robot
RunsFileStepsWhenSelected ==
    [][mission_files["a.mission"] = SelectedFile => RunsFileSteps]_vars

-----------------------------------------------------------------------------
(* Claims about the rows a monitor writes                                    *)

\* the monitor of task dict id takes a step
MonitorSteps(id) ==
    /\ id <= Len(monitors)
    /\ Len(monitors') = Len(monitors)
    /\ monitors'[id] # monitors[id]

\* the rows inserted for other task dicts than id are as they were
OtherRowsKept(id) ==
    /\ Len(tasks_tree') = Len(tasks_tree)
    /\ \A j \in 1..Len(tasks_tree) :
           tasks_tree[j].owner # id => tasks_tree'[j] = tasks_tree[j]

\* C32: a status change made by the monitor of one task leaves the status of
\* every other task of the collection unchanged, also of a task with the same
\* robot, mission file name, time of day and recurrence.
C32_OnlyOwnStatusChanges ==
    [][\A id \in 1..MaxTaskObjs : MonitorSteps(id) => OtherRowsKept(id)]_vars

\* two task dicts of the session agree in robot, file, time and recurrence
TwinTasks ==
    \E i, j \in TaskIds :
        i # j /\ TaskMatches(task_objs[i], Row(j, task_objs[j], ""))

\* the same while no two task dicts agree in the four fields
OnlyOwnStatusWithoutTwins ==
    [][\A id \in 1..MaxTaskObjs :
          (~ TwinTasks /\ MonitorSteps(id)) => OtherRowsKept(id)]_vars

-----------------------------------------------------------------------------
(* SpecInbound: inbound frames of every kind on one robot, beside a mission  *)
(* run and the jog loop                                                      *)

MaxInboundFrames == 2   \* inbound frames per robot

UnknownFrame == [T |-> 999, x |-> 5, y |-> 6]
CodelessFrame == [x |-> 5, t |-> 7]
AllInboundFrames == InboundFrames \cup {UnknownFrame, CodelessFrame}

InitInbound ==
    /\ WorkersInit
    /\ listener = [r \in Robots |-> ListenerIdle]
    /\ frames_left = [r \in Robots |-> MaxInboundFrames]
    /\ inits_left = [r \in Robots |-> MaxInits]
    /\ missions = [r \in Robots |-> ("m1" :> Mission("m1", "Mission", <<MoveA>>))]
    /\ selected_mission = [r \in Robots |-> "m1"]
    /\ EditIdle /\ SchedIdle /\ ClassifyIdle /\ TimingIdle /\ LinkIdle
    /\ NotifyIdle /\ SendIdle /\ StepIdle

NextInbound ==
    \/ \E data \in AllInboundFrames : ListenerReceive(PoseRobot, data)
    \/ ListenerAcquire(PoseRobot)
    \/ ListenerWrite(PoseRobot)
    \/ ListenerRelease(PoseRobot)
    \/ Len(runs[PoseRobot]) < MaxPoseRuns /\ PlayMissionSpecific(PoseRobot, 1)
    \/ RunThread(PoseRobot)
    \/ JogController(PoseRobot)

SpecInbound == InitInbound /\ [][NextInbound]_vars

\* a line is read and dispatched: nothing but the listener changes, and only a
\* frame of code 1051 takes the listener to the guard
DispatchOnly(r) ==
    frames_left'[r] # frames_left[r]
        => /\ UNCHANGED <<poseVars, missionVars, runVars>>
           /\ listener'[r] # listener[r]
                 => /\ Get(listener'[r].data, "T", NoCode) = 1051
                    /\ listener'[r].pc = "acquire"

\* one axis assignment of the 1051 branch: made with the guard held, the
\* frame's value or the current one, the other axes kept
AxisSet(r) ==
    (listener[r].pc \in Axes /\ listener'[r] # listener[r])
        => /\ movement_lock[r] = ListenerTid
           /\ \A a \in Axes :
                  current_position'[r][a] =
                      IF a = listener[r].pc /\ a \in DOMAIN listener[r].data
                      THEN listener[r].data[a]
                      ELSE current_position[r][a]
           /\ UNCHANGED <<missionVars, runVars>>

\* while the listener holds the guard no step changes an axis the frame omits
OmittedKept(r) ==
    movement_lock[r] = ListenerTid
        => \A a \in Axes \ DOMAIN listener[r].data :
               current_position'[r][a] = current_position[r][a]

\* at the end of the guarded block the pose has every value the frame carries
CarriedSet(r) ==
    listener[r].pc = "unlock"
        => \A a \in Axes \cap DOMAIN listener[r].data :
               current_position[r][a] = listener[r].data[a]

InboundStepwise == [][DispatchOnly(PoseRobot) /\ AxisSet(PoseRobot)]_vars

-----------------------------------------------------------------------------
(* Claims about the jog loop                                                 *)

\* the steps a jog thread takes by itself, by its position before and after
JogOwnSteps ==
    {<<"loop", "acquire">>, <<"loop", "exited">>, <<"acquire", "locked">>,
     <<"locked", "unlock">>, <<"unlock", "loop">>}

JogOwnStep(old, new) ==
    /\ <<old.pc, new.pc>> \in JogOwnSteps
    /\ new.axis = old.axis
    /\ new.delta = old.delta

\* self.moving_thread is assigned only while the thread it refers to is not
\* alive: a loop that is replaced or dropped has ended
ReplacedWhenDead(r) ==
    moving_thread'[r] # moving_thread[r]
        => \/ JogOwnStep(moving_thread[r], moving_thread'[r])
           \/ ~ JogAlive(r)

\* with no thread kept after stop_continuous_move, no jog tick is made
NoTickAfterStop(r) ==
    ~ JogAlive(r)
        => /\ jog_ticks'[r] = jog_ticks[r]
           /\ pose_writer'[r] # pose_writer[r] => pose_writer'[r] # JogTid

\* stop_continuous_move without a live jog loop
StopWhenIdle(r) ==
    (GuiIdle /\ ~ JogAlive(r) /\ StopContinuousMove(r))
        => /\ UNCHANGED <<poseVars, moving_stop_event, gui_pc, jog_ticks, runVars>>
           /\ ~ JogAlive(r)'

\* C34: at most one jog loop of a robot is alive: start_continuous_move has
\* stopped and joined the loop it replaces before the new one exists, no jog
\* tick is made after stop_continuous_move returned, and stop_continuous_move
\* without a live loop changes nothing.
C34_OneJogLoop ==
    [][/\ ReplacedWhenDead(PoseRobot)
       /\ NoTickAfterStop(PoseRobot)
       /\ StopWhenIdle(PoseRobot)]_vars

\* a jog on t runs after a jog on x made its tick and was joined
C34_Witness ==
    /\ moving_thread[PoseRobot] = [pc |-> "acquire", axis |-> "t", delta |-> 0 - t_increment]
    /\ jog_ticks[PoseRobot] = 1
    /\ current_position[PoseRobot].x = startup_position.x + xyz_increment
    /\ GuiIdle

-----------------------------------------------------------------------------
(* SpecRunLive: runs of one robot, also two at once, beside a jog loop, with  *)
(* every started thread scheduled again and again                            *)

\* a movement without y, z and t: execute_step raises KeyError
BadMove == [T |-> 104, x |-> 1]

LiveMissions == {<<MoveA, Delay500>>, <<MoveA, BadMove>>}

InitRunLive ==
    /\ FrameInit
    /\ \E steps \in LiveMissions :
           missions = [r \in Robots |->
                          "m1" :> Mission("m1", "Mission",
                                          IF r = PoseRobot THEN steps ELSE <<>>)]
    /\ selected_mission = [r \in Robots |-> "m1"]
    /\ EditIdle /\ SchedIdle /\ ClassifyIdle /\ TimingIdle /\ LinkIdle
    /\ NotifyIdle /\ SendIdle /\ StepIdle

\* the steps of the k-th run_mission thread of robot r
RunMission(r, k) ==
    /\ k <= Len(runs[r])
    /\ \/ RunBegin(r, k)
       \/ RunNext(r, k)
       \/ RunAcquire(r, k)
       \/ RunCommit(r, k)
       \/ RunRelease(r, k)
       \/ RunStepDone(r, k)

\* the steps of the continuous_move_loop thread
ContinuousMoveLoop(r) ==
    \/ JogLoop(r)
    \/ JogAcquire(r)
    \/ JogTick(r)
    \/ JogRelease(r)

NextRunLive ==
    \/ \E times \in 1..MaxTimes : PlayMissionSpecific(PoseRobot, times)
    \/ \E k \in 1..MaxRuns : RunMission(PoseRobot, k)
    \/ StartContinuousMove(PoseRobot, "x", xyz_increment)
    \/ GuiJoined(PoseRobot)
    \/ ContinuousMoveLoop(PoseRobot)

\* a started thread is scheduled as long as it can run; its sleeps end
SpecRunLive ==
    /\ InitRunLive /\ [][NextRunLive]_vars
    /\ \A k \in 1..MaxRuns : WF_vars(RunMission(PoseRobot, k))
    /\ WF_vars(ContinuousMoveLoop(PoseRobot))

Terminal == {"completed", "stopped", "failed"}

\* a run has ended exactly when it has one of the terminal outcomes
EndedWithOutcome(r) ==
    \A k \in 1..Len(runs[r]) :
        /\ runs[r][k].outcome \in Terminal \cup {"running"}
        /\ runs[r][k].pc = "done" <=> runs[r][k].outcome \in Terminal

\* a run that has ended takes no further step and keeps its outcome
EndedStays(r) ==
    \A k \in 1..Len(runs[r]) :
        runs[r][k].pc = "done" => runs'[r][k] = runs[r][k]

\* C35: every started run leaves Running and reaches one of the outcomes
\* completed, stopped and failed; a run that has reached its outcome executes
\* no further step and keeps the outcome.
C35_RunsTerminate ==
    /\ [] EndedWithOutcome(PoseRobot)
    /\ [][EndedStays(PoseRobot)]_vars
    /\ \A k \in 1..MaxRuns :
           (Len(runs[PoseRobot]) >= k)
               ~> (Len(runs[PoseRobot]) >= k /\ runs[PoseRobot][k].pc = "done")

\* two runs were started on the same robot beside a jog loop that has made a
\* tick; one of them has completed its two repetitions of two steps
C35_Witness ==
    /\ Len(runs[PoseRobot]) = 2
    /\ \E k \in 1..2 :
           /\ runs[PoseRobot][k].outcome = "completed"
           /\ runs[PoseRobot][k].executed = 4
    /\ jog_ticks[PoseRobot] > 0

-----------------------------------------------------------------------------
(* SpecRunSelect: one run at a time of one or two repetitions, while the     *)
(* operator creates missions, which selects them                             *)

InitRunSelect ==
    /\ FrameInit
    /\ missions = [r \in Robots |->
                      "m1" :> Mission("m1", "Mission",
                                      IF r = EditRobot THEN <<MoveA, Delay500>> ELSE <<>>)]
    /\ selected_mission = [r \in Robots |-> "m1"]
    /\ EditIdle /\ SchedIdle /\ ClassifyIdle /\ TimingIdle /\ LinkIdle
    /\ NotifyIdle /\ SendIdle /\ StepIdle

NextRunSelect ==
    \/ \E times \in 1..MaxTimes :
           /\ ActiveRuns(EditRobot) = {}
           /\ PlayMissionSpecific(EditRobot, times)
    \/ RunThread(EditRobot)
    \/ \E name \in MissionNames : CreateMission(EditRobot, name)

SpecRunSelect == InitRunSelect /\ [][NextRunSelect]_vars

\* run k of robot r goes from one repetition to the next in this step
NextRepetition(r, k) ==
    /\ k <= Len(runs[r])
    /\ runs[r][k].rep >= 1
    /\ runs'[r][k].rep = runs[r][k].rep + 1

\* C36: every repetition of a run executes the steps of the mission that was
\* selected when the run started, whatever mission is selected, created or
\* loaded on the robot meanwhile.
C36_RunKeepsItsMission ==
    [][\A r \in Robots : \A k \in 1..MaxRuns :
          NextRepetition(r, k) => runs'[r][k].mission = runs[r][k].mission]_vars

\* within one repetition the run stays with the list it began the repetition with
RepetitionKeepsItsMission ==
    [][\A r \in Robots : \A k \in 1..MaxRuns :
          ( /\ k <= Len(runs[r])
            /\ runs[r][k].rep >= 1
            /\ runs'[r][k].rep = runs[r][k].rep )
             => runs'[r][k].mission = runs[r][k].mission]_vars

-----------------------------------------------------------------------------
(* Claims about the tasks removed from the collection                        *)

\* task dict id is in self.scheduled_tasks
InCollection(id) == \E i \in 1..Len(scheduled_tasks) : scheduled_tasks[i] = id

\* the monitor of task dict id calls play_mission_specific in this step
CallsEngine(id) ==
    /\ id <= Len(monitors)
    /\ id <= Len(monitors')
    /\ monitors'[id].calls > monitors[id].calls

\* C37: the monitor of a task that delete_selected_task or load_schedule has
\* removed from the collection never calls play_mission_specific afterwards.
C37_RemovedTaskNeverRuns ==
    [][\A id \in 1..MaxTaskObjs : CallsEngine(id) => InCollection(id)]_vars

\* a task dict is in the collection from its creation until it is removed
RemovedOnlyByDeleteOrLoad ==
    [][\A id \in 1..MaxTaskObjs :
          /\ (id > Len(task_objs) /\ id <= Len(task_objs')) => InCollection(id)'
          /\ (id <= Len(task_objs) /\ InCollection(id) /\ ~ InCollection(id)')
                => \/ LoadSchedule
                   \/ \E i \in 1..Len(tasks_tree) : DeleteSelectedTask(i)]_vars

-----------------------------------------------------------------------------
(* The stop event between a cancellation and the run that is to observe it   *)

\* the stop event of a robot is never set: the event is created
\* (robot_control_frame.py line 48), tested by run_mission (929) and cleared
\* by play_mission_specific (946); no handler calls set()
StopEventNeverRaised ==
    \A r \in Robots : ~ mission_execution_stop_event[r]

\* play_mission_specific clears the event whether or not a run of the robot
\* is between two steps: a state where a run is active and a later run has
\* been started, the clear of line 946 having been executed in between
ClearedWhileRunActive ==
    \E r \in Robots : \E j, k \in 1..Len(runs[r]) :
        /\ j < k
        /\ RunActive(r, j)
        /\ ~ mission_execution_stop_event[r]

-----------------------------------------------------------------------------
(* Claims about the status kept in a task's record                           *)

\* the status monitor_task has most recently passed to update_task_status for
\* its task; a monitor that has set none yet was started on a Pending task
LastSetStatus(id) ==
    LET m == monitors[id]
    IN  IF m.pc \in {"compute", "sleep"} THEN "Pending"
        ELSE IF m.pc \in {"load", "completed"} THEN "Running"
        ELSE IF m.pc = "recur" \/ m.exit = "once" THEN "Completed"
        ELSE IF m.exit = "time_passed" THEN "Time Passed"
        ELSE IF m.exit = "invalid_time" THEN "Invalid Time Format"
        ELSE IF m.exit = "load_failed" THEN "Failed to Load"
        ELSE "Unknown Robot"

\* the record of every task that has a monitor holds the status last set
StoredStatusCurrent ==
    \A id \in 1..Len(task_objs) :
        monitors[id].pc # "none" => task_objs[id].status = LastSetStatus(id)

\* save_schedule writes, for every task of the list, the status last set
SavesLastStatus ==
    SaveSchedule =>
        \A i \in 1..Len(scheduled_tasks) :
            monitors[scheduled_tasks[i]].pc # "none" =>
                schedule_file'[i].status = LastSetStatus(scheduled_tasks[i])

\* load_schedule starts a monitor for the tasks stored as Pending only
LoadStartsPendingOnly ==
    LoadSchedule =>
        \A i \in 1..Len(schedule_file) :
            schedule_file[i].status # "Pending" =>
                monitors'[Len(task_objs) + i].pc = "none"

\* C39: the status stored in a task's record is the status its monitor set
\* last; a schedule saved after the task reached Completed, Time Passed or a
\* failure status holds that status, and loading it starts no monitor for the
\* task.
C39_StoredStatusIsLastSet ==
    /\ []StoredStatusCurrent
    /\ [][SavesLastStatus]_vars
    /\ [][LoadStartsPendingOnly]_vars

\* what load_schedule does do: it starts monitors by the stored status alone
LoadFollowsStoredStatus == [][LoadStartsPendingOnly]_vars

\* no record is ever written after it was built
RecordsNeverWritten ==
    [][\A id \in 1..Len(task_objs) : task_objs'[id] = task_objs[id]]_vars

\* a task that ran to Completed as Once was saved and loaded, and the loaded
\* copy has a monitor
CompletedTaskMonitoredAgain ==
    \E id \in 1..Len(task_objs) :
        LET o == task_objs[id].origin
        IN  /\ o # id
            /\ monitors[o].exit = "once"
            /\ monitors[id].pc # "none"

-----------------------------------------------------------------------------
(* SpecRunDup: one run at a time of a mission whose step list the operator    *)
(* edits meanwhile: add_step, insert_step, duplicate_step, delete_step       *)

NextRunDup ==
    \/ \E times \in 1..MaxTimes :
           /\ ActiveRuns(EditRobot) = {}
           /\ PlayMissionSpecific(EditRobot, times)
    \/ RunThread(EditRobot)
    \/ AddStep(EditRobot)
    \/ \E row \in (0..(MaxMissionSteps - 1)) \cup {NoIndex} : InsertStep(EditRobot, row)
    \/ \E row \in (0..(MaxMissionSteps - 1)) \cup {NoIndex} : DuplicateStep(EditRobot, row)
    \/ \E row \in (0..(MaxMissionSteps - 1)) \cup {NoIndex} : DeleteStep(EditRobot, row)

SpecRunDup == InitRunEdit /\ [][NextRunDup]_vars

\* the last progress value of the run lies in [0, 100], and the run has
\* executed no more steps than the len(steps) * times counted at its start
RunBounded(run) ==
    /\ RatLeq(Ratio(0, 1), run.progress)
    /\ RatLeq(run.progress, Ratio(100, 1))
    /\ run.pc # "start" => run.executed <= run.total

\* C40: every progress value of a run lies in [0, 100] and the run executes at
\* most the len(steps) * repetitions steps counted at its start, whatever edits
\* of the running mission's step list happen meanwhile.
C40_RunBoundedUnderEdits ==
    \A r \in Robots : \A k \in 1..Len(runs[r]) : RunBounded(runs[r][k])

====
